---- MODULE Spec2Model ----
(***************************************************************************)
(* Messaging engine of ileapApp: the Express/Mongoose message routes       *)
(* (conversations, direct and group threads, cursor pagination, read       *)
(* state, group membership and permissions) over the Message, Group, User  *)
(* and OpportunityMentor collections, and the chat screen's pager.         *)
(*                                                                         *)
(* Every route handler is one atomic action.  Message and group            *)
(* identifiers are ObjectIds generated by one server process, modelled as  *)
(* strictly increasing naturals.  createdAt is the millisecond clock read  *)
(* when the document is saved: it never decreases, and two documents saved *)
(* within the same millisecond share it.  A find() sorted on createdAt     *)
(* returns documents with equal createdAt in any order (MongoDB leaves it  *)
(* unspecified), so the sort is a nondeterministic choice.  The readAt     *)
(* time of a readBy entry and the media descriptor of a message are left   *)
(* out: no handler reads them back.  The uploaded file of a request is an  *)
(* input, since validation and content depend on it.                       *)
(***************************************************************************)
EXTENDS Integers, Sequences, FiniteSets, TLC

VARIABLES
    messages,     \* the Message collection, a sequence in insertion order
    groups,       \* the Group collection: group id -> document
    nextMsgId,    \* next Message _id
    nextGroupId,  \* next Group _id
    now,          \* the server clock (createdAt of the latest save)
    userRole,     \* the User collection: user -> role (NoDoc: no document)
    mentorRecs,   \* the OpportunityMentor collection: <<volunteer, opportunity>>
    resp,         \* the response of the last request
    pager,        \* the chat screen's pagination state
    inflight,     \* requests between two of their store operations, in any order
    db,           \* the database connection and its reconnection state
    screen        \* the conversations screen's lists

vars == <<messages, groups, nextMsgId, nextGroupId, now, userRole, mentorRecs,
          resp, pager, inflight, db, screen>>

(***************************************************************************)
(* Bounds                                                                  *)
(***************************************************************************)
\* messages ever sent under SpecDirect and SpecGroupMsg, SpecPaging, SpecChat
MaxMsgs == 2
MaxThread == 4
MaxWalk == 3
\* groups ever created
MaxGroups == 1
\* largest page size requested
MaxLimit == 2
\* groups ever created under SpecGate
MaxGateGroups == 2
\* messages ever sent under SpecConv
MaxConvMsgs == 3
\* requests between two store operations at one time
MaxInflight == 2
\* reconnect timers pending at one time under SpecReconnect
MaxTimers == 3
\* value of reconnectAttempts that SpecReconnect stops counting at
MaxAttempts == 52

(***************************************************************************)
(* Program constants and value sets                                        *)
(***************************************************************************)
DefaultLimit == 20
ClientPageSize == 20
MAX_RECONNECT_ATTEMPTS == 50

Users == {"u1", "u2", "u3"}
Opps == {"o1", "o2"}
NoUser == "nouser"
NoOpp == "noopp"
NoDoc == "nodoc"
NoId == 0
Contents == {"Hi"}
NoContent == ""
Names == {"g"}
Descriptions == {"d"}
NoText == "undefined"

Roles == {"admin", "organization", "volunteer", "mentor", "unset"}

(***************************************************************************)
(* Sequence helpers                                                        *)
(***************************************************************************)
Range(s) == {s[i] : i \in DOMAIN s}

Reverse(s) == [i \in 1..Len(s) |-> s[Len(s) + 1 - i]]

Min(a, b) == IF a < b THEN a ELSE b

Take(s, n) == SubSeq(s, 1, Min(n, Len(s)))

Contains(s, x) == \E i \in DOMAIN s : s[i] = x

\* Array.filter(id => id !== x)
Without(s, x) == SelectSeq(s, LAMBDA y : y # x)

\* Array.from(new Set(ids.map(String))): first occurrences, in order
RECURSIVE Dedup(_)
Dedup(s) ==
    IF s = <<>> THEN <<>>
    ELSE LET init == Dedup(SubSeq(s, 1, Len(s) - 1))
             x == s[Len(s)]
         IN IF Contains(init, x) THEN init ELSE Append(init, x)

(***************************************************************************)
(* Message collection                                                      *)
(***************************************************************************)
MsgSet == Range(messages)

MsgIds == {m.id : m \in MsgSet}

MsgById(id) == CHOOSE m \in MsgSet : m.id = id

Readers(m) == {m.readBy[i].user : i \in DOMAIN m.readBy}

\* Message.create for a direct message: isRead defaults to false, readBy to []
NewDirectMessage(id, s, r, c, t) ==
    [id |-> id, sender |-> s, receiver |-> r, group |-> NoId, content |-> c,
     isRead |-> FALSE, readBy |-> <<>>, createdAt |-> t]

\* Message.create for a group message: the author is the first reader
NewGroupMessage(id, s, g, c, t) ==
    [id |-> id, sender |-> s, receiver |-> NoUser, group |-> g, content |-> c,
     isRead |-> FALSE, readBy |-> <<[user |-> s]>>, createdAt |-> t]

\* the $or filter of a direct thread
DirectThread(msgs, a, b) ==
    {m \in Range(msgs) : \/ m.sender = a /\ m.receiver = b
                         \/ m.sender = b /\ m.receiver = a}

GroupThread(msgs, g) == {m \in Range(msgs) : m.group = g}

(***************************************************************************)
(* Pagination engine                                                       *)
(***************************************************************************)
\* parseInt(req.query.limit) || 20
ParseLimit(q) == IF q = 0 THEN DefaultLimit ELSE q

\* CursorFilter with the comparison turned round
CursorFilterGt(S, cursor) ==
    IF cursor # NoId THEN {m \in S : m.id > cursor} ELSE S

\* query._id = { $lt: cursor } when a cursor is given
CursorFilter(S, cursor) ==
    IF cursor # NoId THEN {m \in S : m.id < cursor} ELSE S

\* .sort({ createdAt: -1 }): every order of S with createdAt non-increasing
RECURSIVE SortCreatedAtDesc(_)
SortCreatedAtDesc(S) ==
    IF S = {} THEN {<<>>}
    ELSE LET latest == {m \in S : \A k \in S : m.createdAt >= k.createdAt}
         IN UNION {{<<m>> \o s : s \in SortCreatedAtDesc(S \ {m})} : m \in latest}

\* .limit(limit + 1), then pop the extra row as nextCursor, then reverse
PageOf(sorted, limit) ==
    LET rows == Take(sorted, limit + 1)
        more == Len(rows) > limit
        kept == IF more THEN SubSeq(rows, 1, Len(rows) - 1) ELSE rows
    IN [page |-> [i \in 1..Len(kept) |-> Reverse(kept)[i].id],
        nextCursor |-> IF more THEN rows[Len(rows)].id ELSE NoId]

\* every response the query can produce for thread S
PageOutcomes(S, q, cursor) ==
    {PageOf(s, ParseLimit(q)) : s \in SortCreatedAtDesc(CursorFilter(S, cursor))}

(***************************************************************************)
(* Read-state tracker                                                      *)
(***************************************************************************)
\* ReadDirectOnFetch with sender and receiver exchanged in the filter
ReadDirectOnFetchSwapped(msgs, a, b) ==
    [i \in DOMAIN msgs |->
        IF msgs[i].sender = a /\ msgs[i].receiver = b /\ ~msgs[i].isRead
        THEN [msgs[i] EXCEPT !.isRead = TRUE,
                             !.readBy = Append(@, [user |-> a])]
        ELSE msgs[i]]

\* ReadDirectOnFetch without the $push
ReadDirectOnFetchNoPush(msgs, a, b) ==
    [i \in DOMAIN msgs |->
        IF msgs[i].sender = b /\ msgs[i].receiver = a /\ ~msgs[i].isRead
        THEN [msgs[i] EXCEPT !.isRead = TRUE]
        ELSE msgs[i]]

\* updateMany({sender: b, receiver: a, isRead: false},
\*            {$set: {isRead: true}, $push: {readBy: {user: a}}})
ReadDirectOnFetch(msgs, a, b) ==
    [i \in DOMAIN msgs |->
        IF msgs[i].sender = b /\ msgs[i].receiver = a /\ ~msgs[i].isRead
        THEN [msgs[i] EXCEPT !.isRead = TRUE,
                             !.readBy = Append(@, [user |-> a])]
        ELSE msgs[i]]

\* ReadDirectExplicit without the sender in the filter
ReadDirectExplicitAnySender(msgs, a, b) ==
    [i \in DOMAIN msgs |->
        IF msgs[i].receiver = a /\ ~msgs[i].isRead
        THEN [msgs[i] EXCEPT !.isRead = TRUE]
        ELSE msgs[i]]

\* updateMany({sender: b, receiver: a, isRead: false}, {$set: {isRead: true}})
ReadDirectExplicit(msgs, a, b) ==
    [i \in DOMAIN msgs |->
        IF msgs[i].sender = b /\ msgs[i].receiver = a /\ ~msgs[i].isRead
        THEN [msgs[i] EXCEPT !.isRead = TRUE]
        ELSE msgs[i]]

\* result.modifiedCount of the explicit mark-read
ModifiedCount(msgs, a, b) ==
    Cardinality({i \in DOMAIN msgs :
        msgs[i].sender = b /\ msgs[i].receiver = a /\ ~msgs[i].isRead})

\* ReadGroupOnFetch that also sets the direct-message flag
ReadGroupOnFetchSetsFlag(msgs, m, g) ==
    [i \in DOMAIN msgs |->
        IF msgs[i].group = g /\ (\A k \in DOMAIN msgs[i].readBy : msgs[i].readBy[k].user # m)
        THEN [msgs[i] EXCEPT !.isRead = TRUE, !.readBy = Append(@, [user |-> m])]
        ELSE msgs[i]]

\* updateMany({group: g, 'readBy.user': {$ne: m}}, {$push: {readBy: {user: m}}})
ReadGroupOnFetch(msgs, m, g) ==
    [i \in DOMAIN msgs |->
        IF msgs[i].group = g /\ (\A k \in DOMAIN msgs[i].readBy : msgs[i].readBy[k].user # m)
        THEN [msgs[i] EXCEPT !.readBy = Append(@, [user |-> m])]
        ELSE msgs[i]]

(***************************************************************************)
(* Conversation aggregator and group list                                  *)
(***************************************************************************)
\* $match: the user's non-group messages
ConvMatch(u) ==
    {m \in MsgSet : (m.sender = u \/ m.receiver = u) /\ m.group = NoId}

\* $group _id: the other party of a matched message
OtherParty(m, u) == IF m.sender = u THEN m.receiver ELSE m.sender

\* the _id values surviving $lookup/$unwind (the counterparty has a User document)
ConvPartners(u) ==
    {x \in {OtherParty(m, u) : m \in ConvMatch(u)} :
        x \in Users /\ userRole[x] # NoDoc}

\* $sum of $cond [receiver = u and isRead = false] over the group of party x
ConvUnreadCount(u, x) ==
    Cardinality({m \in ConvMatch(u) :
        OtherParty(m, u) = x /\ m.receiver = u /\ m.isRead = FALSE})

\* CountGroupUnread that reads the isRead flag instead of the readBy log
RECURSIVE CountGroupUnreadByFlag(_, _, _)
CountGroupUnreadByFlag(msgs, g, u) ==
    IF msgs = <<>> THEN 0
    ELSE LET m == Head(msgs)
             hit == m.group = g /\ ~m.isRead /\ m.sender # u
         IN (IF hit THEN 1 ELSE 0) + CountGroupUnreadByFlag(Tail(msgs), g, u)

\* countDocuments({group: g, 'readBy.user': {$ne: u}, sender: {$ne: u}})
RECURSIVE CountGroupUnread(_, _, _)
CountGroupUnread(msgs, g, u) ==
    IF msgs = <<>> THEN 0
    ELSE LET m == Head(msgs)
             hit == /\ m.group = g
                    /\ \A k \in DOMAIN m.readBy : m.readBy[k].user # u
                    /\ m.sender # u
         IN (IF hit THEN 1 ELSE 0) + CountGroupUnread(Tail(msgs), g, u)

\* Group.find({members: u}) with the unreadCount of each
GroupList(u) ==
    [g \in {h \in DOMAIN groups : Contains(groups[h].members, u)} |->
        CountGroupUnread(messages, g, u)]

(***************************************************************************)
(* Responses                                                               *)
(***************************************************************************)
\* the answer to the last request: the HTTP status and the body fields the
\* handlers compute (page and nextCursor of a fetch, updatedCount of a
\* mark-read, _id of a created document, unreadCount per entry of a list)
Resp(status) ==
    [status |-> status, page |-> <<>>, nextCursor |-> NoId, updatedCount |-> 0,
     id |-> NoId, body |-> <<>>]

(***************************************************************************)
(* Initial state: empty Message and Group collections.  Users, roles and   *)
(* mentor assignments are created outside these routes and never change.   *)
(***************************************************************************)
RoleConfigs ==
    {[u \in Users |-> CASE u = "u1" -> "organization"
                        [] u = "u2" -> "volunteer"
                        [] OTHER -> "volunteer"]}

MentorConfigs == {{<<"u2", "o1">>}}

ClosedPager ==
    [open |-> FALSE, user |-> NoUser, isGroup |-> FALSE, peer |-> NoUser,
     group |-> NoId, limit |-> 0, messages |-> <<>>, nextCursor |-> NoId,
     hasMoreMessages |-> TRUE, atOpen |-> {}]

\* the connection module once loaded: handlers set up, nothing attempted
DbAtLoad ==
    [readyState |-> 0, reconnectAttempts |-> 0, timers |-> 0, connecting |-> "none",
     started |-> FALSE]

\* useState([]) of conversations and groups
EmptyScreen ==
    [conversationsData |-> <<>>, conversations |-> <<>>,
     groupsData |-> <<>>, groups |-> <<>>]

Init ==
    /\ messages = <<>>
    /\ groups = <<>>
    /\ nextMsgId = 1
    /\ nextGroupId = 1
    /\ now = 0
    /\ userRole \in RoleConfigs
    /\ mentorRecs \in MentorConfigs
    /\ resp = Resp(0)
    /\ pager = ClosedPager
    /\ inflight = <<>>
    /\ db = DbAtLoad
    /\ screen = EmptyScreen

(***************************************************************************)
(* Direct messages                                                         *)
(***************************************************************************)
\* CanInitiate that lets a volunteer start a thread
CanInitiateWithVolunteer(role) ==
    role \in {"organization", "admin", "mentor", "volunteer"}

\* sender.role === 'organization' || 'admin' || 'mentor'
CanInitiate(role) == role \in {"organization", "admin", "mentor"}

\* req.file of a multipart request: absent, an image or a video
NoFile == "nofile"
Files == {"image", "video"}

\* content || (req.file ? 'Sent an image' or 'Sent a video' : '')
MessageContent(content, file) ==
    IF content # NoContent THEN content
    ELSE IF file = "image" THEN "Sent an image"
    ELSE IF file = "video" THEN "Sent a video"
    ELSE NoContent

\* the identifiers new Types.ObjectId(undefined) generates: each is new, and
\* names no user
GeneratedIds == <<"x1", "x2", "x3", "x4", "x5", "x6">>

\* new Types.ObjectId(receiverId), for the n-th document to be stored
ReceiverObjectId(receiverId, n) ==
    IF receiverId = NoUser THEN GeneratedIds[n] ELSE receiverId

\* MaySend that lets every sender through
MaySendAlways(msgs, s, r) == TRUE

\* User.findById(senderId) finds the sender, and the thread exists or the
\* sender may start one
MaySend(msgs, s, r) ==
    DirectThread(msgs, s, r) # {} \/ CanInitiate(userRole[s])

\* POST /messages, with or without an uploaded file
PostMessage(s, receiverId, content, file) ==
    /\ IF (receiverId = NoUser \/ content = NoContent) /\ file = NoFile
       THEN /\ resp' = Resp(400)
            /\ UNCHANGED <<messages, nextMsgId, now>>
       ELSE IF userRole[s] = NoDoc
       THEN /\ resp' = Resp(404)
            /\ UNCHANGED <<messages, nextMsgId, now>>
       ELSE IF ~MaySend(messages, s, ReceiverObjectId(receiverId, nextMsgId))
       THEN /\ resp' = Resp(403)
            /\ UNCHANGED <<messages, nextMsgId, now>>
       ELSE \E t \in {now, now + 1} :
            /\ messages' = Append(messages,
                              NewDirectMessage(nextMsgId, s,
                                  ReceiverObjectId(receiverId, nextMsgId),
                                  MessageContent(content, file), t))
            /\ nextMsgId' = nextMsgId + 1
            /\ now' = t
            /\ resp' = [Resp(200) EXCEPT !.id = nextMsgId]
    /\ UNCHANGED <<groups, nextGroupId, userRole, mentorRecs, pager,
                   inflight, db, screen>>

\* POST /messages without an uploaded file
SendMessage(s, receiverId, content) == PostMessage(s, receiverId, content, NoFile)

\* the store effects and the answer of GET /messages/:userId
FetchMessages(a, b, q, cursor) ==
    /\ messages' = ReadDirectOnFetch(messages, a, b)
    /\ \E out \in PageOutcomes(DirectThread(messages, a, b), q, cursor) :
          resp' = [Resp(200) EXCEPT !.page = out.page, !.nextCursor = out.nextCursor]

\* GET /messages/:userId
GetMessages(a, b, q, cursor) ==
    /\ FetchMessages(a, b, q, cursor)
    /\ UNCHANGED <<groups, nextMsgId, nextGroupId, now, userRole, mentorRecs, pager,
                   inflight, db, screen>>

\* POST /conversations/:conversationId/read
MarkConversationRead(a, b) ==
    /\ messages' = ReadDirectExplicit(messages, a, b)
    /\ resp' = [Resp(200) EXCEPT !.updatedCount = ModifiedCount(messages, a, b)]
    /\ UNCHANGED <<groups, nextMsgId, nextGroupId, now, userRole, mentorRecs, pager,
                   inflight, db, screen>>

\* LastMessageChoices with the sort ascending
LastMessageChoicesOldest(u, x) ==
    LET thread == {m \in ConvMatch(u) : OtherParty(m, u) = x}
    IN {m.id : m \in {k \in thread : \A j \in thread : k.createdAt <= j.createdAt}}

\* $sort createdAt -1, then lastMessage: {$first: '$$ROOT'} of the group of
\* party x: a message of that thread with the latest createdAt
LastMessageChoices(u, x) ==
    LET thread == {m \in ConvMatch(u) : OtherParty(m, u) = x}
    IN {m.id : m \in {k \in thread : \A j \in thread : k.createdAt >= j.createdAt}}

\* every list the aggregation can answer: one entry per surviving party
ConversationLists(u) ==
    {[x \in ConvPartners(u) |->
          [unreadCount |-> ConvUnreadCount(u, x), lastMessage |-> l[x]]] :
       l \in {k \in [ConvPartners(u) -> MsgIds] :
                 \A x \in ConvPartners(u) : k[x] \in LastMessageChoices(u, x)}}

\* GET /conversations
GetConversations(u) ==
    /\ \E list \in ConversationLists(u) : resp' = [Resp(200) EXCEPT !.body = list]
    /\ UNCHANGED <<messages, groups, nextMsgId, nextGroupId, now, userRole,
                   mentorRecs, pager, inflight, db, screen>>

(***************************************************************************)
(* Group threads                                                           *)
(***************************************************************************)
\* IsMember with the gate left open
NoMembershipGate(grp, u) == TRUE

\* group.members.includes(currentUserId); Group.findOne({_id, members: currentUserId})
IsMember(grp, u) == Contains(grp.members, u)

\* GET /groups
GetGroups(u) ==
    /\ resp' = [Resp(200) EXCEPT !.body = GroupList(u)]
    /\ UNCHANGED <<messages, groups, nextMsgId, nextGroupId, now, userRole,
                   mentorRecs, pager, inflight, db, screen>>

\* the store effects and the answer of GET /groups/:groupId/messages
FetchGroupMessages(m, g, q, cursor) ==
    IF g \notin DOMAIN groups
    THEN /\ resp' = Resp(404)
         /\ UNCHANGED messages
    ELSE IF ~IsMember(groups[g], m)
    THEN /\ resp' = Resp(403)
         /\ UNCHANGED messages
    ELSE /\ messages' = ReadGroupOnFetch(messages, m, g)
         /\ \E out \in PageOutcomes(GroupThread(messages, g), q, cursor) :
               resp' = [Resp(200) EXCEPT !.page = out.page,
                                         !.nextCursor = out.nextCursor]

\* GET /groups/:groupId/messages
GetGroupMessages(m, g, q, cursor) ==
    /\ FetchGroupMessages(m, g, q, cursor)
    /\ UNCHANGED <<groups, nextMsgId, nextGroupId, now, userRole, mentorRecs, pager,
                   inflight, db, screen>>

\* POST /groups/:groupId/messages, with or without an uploaded file
PostGroupMessage(m, g, content, file) ==
    /\ IF content = NoContent /\ file = NoFile
       THEN /\ resp' = Resp(400)
            /\ UNCHANGED <<messages, nextMsgId, now>>
       ELSE IF g \notin DOMAIN groups \/ ~IsMember(groups[g], m)
       THEN /\ resp' = Resp(404)
            /\ UNCHANGED <<messages, nextMsgId, now>>
       ELSE \E t \in {now, now + 1} :
            /\ messages' = Append(messages,
                              NewGroupMessage(nextMsgId, m, g,
                                              MessageContent(content, file), t))
            /\ nextMsgId' = nextMsgId + 1
            /\ now' = t
            /\ resp' = [Resp(200) EXCEPT !.id = nextMsgId]
    /\ UNCHANGED <<groups, nextGroupId, userRole, mentorRecs, pager,
                   inflight, db, screen>>

\* POST /groups/:groupId/messages without an uploaded file
SendGroupMessage(m, g, content) == PostGroupMessage(m, g, content, NoFile)

(***************************************************************************)
(* Group membership and permission engine                                  *)
(***************************************************************************)
\* OpportunityMentor.findOne({volunteer: u, opportunity: opp})
IsMentorFor(u, opp) == <<u, opp>> \in mentorRecs

\* OpportunityMentor.findOne({volunteer: u})
IsMentorAnywhere(u) == \E r \in mentorRecs : r[1] = u

\* CanCreateGroup with the opportunity of the request ignored
CanCreateGroupAnyRecord(u, opp) ==
    \/ userRole[u] \in {"admin", "organization"}
    \/ userRole[u] = "volunteer" /\ IsMentorAnywhere(u)

\* the role and mentor-assignment check of POST /groups
CanCreateGroup(u, opp) ==
    \/ userRole[u] \in {"admin", "organization"}
    \/ /\ userRole[u] = "volunteer"
       /\ IF opp # NoOpp THEN IsMentorFor(u, opp) ELSE IsMentorAnywhere(u)

\* CanManageGroup with the mentor clause open to every role
CanManageGroupAnyRole(u, grp) ==
    \/ userRole[u] \in {"admin", "organization"}
    \/ Contains(grp.admins, u)
    \/ grp.createdBy = u
    \/ grp.opportunityId # NoOpp /\ IsMentorFor(u, grp.opportunityId)

\* isAdminOrOrganization || isGroupAdmin || isOpportunityMentor || isGroupCreator
CanManageGroup(u, grp) ==
    \/ userRole[u] \in {"admin", "organization"}
    \/ Contains(grp.admins, u)
    \/ grp.createdBy = u
    \/ /\ grp.opportunityId # NoOpp
       /\ userRole[u] = "volunteer"
       /\ IsMentorFor(u, grp.opportunityId)

\* AllowsOrganizationGroup that lets an organization through as well
AllowsOrganizationGroupForOrg(u, isOrg) ==
    ~isOrg \/ userRole[u] \in {"admin", "organization"}

\* not (isOrganizationGroup && user.role !== 'admin')
AllowsOrganizationGroup(u, isOrg) == ~isOrg \/ userRole[u] = "admin"

\* MentorIdLists without the opportunity in the filter
MentorIdListsAnyOpp(ids, opp) ==
    LET S == {v \in Range(ids) : opp # NoOpp /\ IsMentorAnywhere(v)}
    IN {s \in [1..Cardinality(S) -> S] : \A i, j \in DOMAIN s : i # j => s[i] # s[j]}

\* OpportunityMentor.find({volunteer: {$in: ids}, opportunity: opp})
\*   .map(a => a.volunteer), in any store order
MentorIdLists(ids, opp) ==
    LET S == {v \in Range(ids) : opp # NoOpp /\ IsMentorFor(v, opp)}
    IN {s \in [1..Cardinality(S) -> S] : \A i, j \in DOMAIN s : i # j => s[i] # s[j]}

\* [...new Set([currentUserId, ...mentorIds])]: the Set holds ObjectId
\* instances, which are distinct objects, so it removes nothing
AdminIds(u, mentorIds) == <<u>> \o mentorIds

\* POST /groups
CreateGroup(u, name, description, hasIds, memberIds, isOrg, opp) ==
    /\ IF name = NoText \/ ~hasIds
       THEN /\ resp' = Resp(400)
            /\ UNCHANGED <<groups, nextGroupId>>
       ELSE IF userRole[u] = NoDoc
       THEN /\ resp' = Resp(404)
            /\ UNCHANGED <<groups, nextGroupId>>
       ELSE IF ~CanCreateGroup(u, opp) \/ ~AllowsOrganizationGroup(u, isOrg)
       THEN /\ resp' = Resp(403)
            /\ UNCHANGED <<groups, nextGroupId>>
       ELSE LET uniqueMemberIds == Dedup(memberIds \o <<u>>)
            IN \E mentorIds \in MentorIdLists(uniqueMemberIds, opp) :
                 /\ groups' = (nextGroupId :>
                       [name |-> name, description |-> description,
                        createdBy |-> u, members |-> uniqueMemberIds,
                        admins |-> AdminIds(u, mentorIds),
                        isOrganizationGroup |-> isOrg, opportunityId |-> opp])
                       @@ groups
                 /\ nextGroupId' = nextGroupId + 1
                 /\ resp' = [Resp(200) EXCEPT !.id = nextGroupId]
    /\ UNCHANGED <<messages, nextMsgId, now, userRole, mentorRecs, pager,
                   inflight, db, screen>>

\* PUT /groups/:groupId
UpdateGroup(u, g, name, description) ==
    /\ IF g \notin DOMAIN groups \/ userRole[u] = NoDoc
       THEN /\ resp' = Resp(404)
            /\ UNCHANGED groups
       ELSE IF ~CanManageGroup(u, groups[g])
       THEN /\ resp' = Resp(403)
            /\ UNCHANGED groups
       ELSE /\ groups' = [groups EXCEPT
                 ![g].name = IF name # NoText THEN name ELSE @,
                 ![g].description = IF description # NoText THEN description ELSE @]
            /\ resp' = [Resp(200) EXCEPT !.id = g]
    /\ UNCHANGED <<messages, nextMsgId, nextGroupId, now, userRole, mentorRecs, pager,
                   inflight, db, screen>>

\* POST /groups/:groupId/members
AddMembers(u, g, hasIds, memberIds) ==
    /\ IF ~hasIds \/ memberIds = <<>>
       THEN /\ resp' = Resp(400)
            /\ UNCHANGED groups
       ELSE IF g \notin DOMAIN groups \/ userRole[u] = NoDoc
       THEN /\ resp' = Resp(404)
            /\ UNCHANGED groups
       ELSE IF ~CanManageGroup(u, groups[g])
       THEN /\ resp' = Resp(403)
            /\ UNCHANGED groups
       ELSE LET uniqueNewMembers ==
                    SelectSeq(memberIds, LAMBDA x : ~Contains(groups[g].members, x))
            IN /\ groups' = [groups EXCEPT ![g].members = @ \o uniqueNewMembers]
               /\ resp' = [Resp(200) EXCEPT !.id = g]
    /\ UNCHANGED <<messages, nextMsgId, nextGroupId, now, userRole, mentorRecs, pager,
                   inflight, db, screen>>

\* AdminsAfterRemove that leaves the admins as they were
AdminsKept(admins, memberId) == admins

\* if (admins.some(id => id === memberId)) admins = admins.filter(id => id !== memberId)
AdminsAfterRemove(admins, memberId) ==
    IF Contains(admins, memberId) THEN Without(admins, memberId) ELSE admins

\* IsLastAdmin that never holds
IsLastAdminNever(grp, memberId) == FALSE

\* group.admins.length === 1 && group.admins[0].toString() === memberId
IsLastAdmin(grp, memberId) == Len(grp.admins) = 1 /\ grp.admins[1] = memberId

\* DELETE /groups/:groupId/members/:memberId
RemoveMember(u, g, memberId) ==
    /\ IF g \notin DOMAIN groups \/ userRole[u] = NoDoc
       THEN /\ resp' = Resp(404)
            /\ UNCHANGED groups
       ELSE IF ~CanManageGroup(u, groups[g])
       THEN /\ resp' = Resp(403)
            /\ UNCHANGED groups
       ELSE IF IsLastAdmin(groups[g], memberId)
       THEN /\ resp' = Resp(400)
            /\ UNCHANGED groups
       ELSE /\ groups' = [groups EXCEPT
                 ![g].members = Without(@, memberId),
                 ![g].admins = AdminsAfterRemove(@, memberId)]
            /\ resp' = [Resp(200) EXCEPT !.id = g]
    /\ UNCHANGED <<messages, nextMsgId, nextGroupId, now, userRole, mentorRecs, pager,
                   inflight, db, screen>>

\* DeleteGroupMessages that deletes nothing
DeleteGroupMessagesNone(msgs, g) == msgs

\* Message.deleteMany({ group: g })
DeleteGroupMessages(msgs, g) == SelectSeq(msgs, LAMBDA m : m.group # g)

\* DELETE /groups/:groupId
DeleteGroup(u, g) ==
    /\ IF g \notin DOMAIN groups \/ userRole[u] = NoDoc
       THEN /\ resp' = Resp(404)
            /\ UNCHANGED <<messages, groups>>
       ELSE IF ~CanManageGroup(u, groups[g])
       THEN /\ resp' = Resp(403)
            /\ UNCHANGED <<messages, groups>>
       ELSE /\ messages' = DeleteGroupMessages(messages, g)
            /\ groups' = [h \in DOMAIN groups \ {g} |-> groups[h]]
            /\ resp' = Resp(200)
    /\ UNCHANGED <<nextMsgId, nextGroupId, now, userRole, mentorRecs, pager,
                   inflight, db, screen>>

(***************************************************************************)
(* Chat screen: the client that follows nextCursor.  ChatScreen asks for   *)
(* ClientPageSize messages per page; the page size is an input here, since *)
(* the routes accept any limit.                                            *)
(***************************************************************************)
\* state after a first page has arrived: setMessages, setNextCursor, setHasMoreMessages
OpenedPager(a, isGroup, peer, g, q, out, thread) ==
    [open |-> TRUE, user |-> a, isGroup |-> isGroup, peer |-> peer, group |-> g,
     limit |-> q, messages |-> Dedup(out.page), nextCursor |-> out.nextCursor,
     hasMoreMessages |-> out.nextCursor # NoId,
     atOpen |-> {m.id : m \in thread}]

\* state after an older page has arrived: prepend what is new, move the cursor
OlderLoaded(pg, out) ==
    IF Len(out.page) > 0
    THEN [pg EXCEPT
            !.messages = SelectSeq(out.page, LAMBDA id : ~Contains(pg.messages, id)) \o @,
            !.nextCursor = out.nextCursor,
            !.hasMoreMessages = out.nextCursor # NoId]
    ELSE [pg EXCEPT !.hasMoreMessages = FALSE]

\* loadMessages: the first page, without a cursor; a direct thread is then
\* marked read again, which finds nothing left unread
LoadMessages(a, isGroup, peer, g, q) ==
    /\ ~pager.open
    /\ IF isGroup
       THEN /\ FetchGroupMessages(a, g, q, NoId)
            /\ pager' = IF resp'.status = 200
                        THEN OpenedPager(a, TRUE, NoUser, g, q, resp',
                                         GroupThread(messages, g))
                        ELSE pager
       ELSE /\ \E out \in PageOutcomes(DirectThread(messages, a, peer), q, NoId) :
                 /\ resp' = [Resp(200) EXCEPT !.page = out.page,
                                              !.nextCursor = out.nextCursor]
                 /\ pager' = OpenedPager(a, FALSE, peer, NoId, q, out,
                                         DirectThread(messages, a, peer))
            /\ messages' = ReadDirectExplicit(ReadDirectOnFetch(messages, a, peer),
                                              a, peer)
    /\ UNCHANGED <<groups, nextMsgId, nextGroupId, now, userRole, mentorRecs,
                   inflight, db, screen>>

\* loadOlderMessages: the next page, at the cursor the last page returned
LoadOlderMessages ==
    /\ pager.open
    /\ pager.nextCursor # NoId
    /\ pager.hasMoreMessages
    /\ IF pager.isGroup
       THEN FetchGroupMessages(pager.user, pager.group, pager.limit, pager.nextCursor)
       ELSE FetchMessages(pager.user, pager.peer, pager.limit, pager.nextCursor)
    /\ pager' = IF resp'.status = 200 THEN OlderLoaded(pager, resp') ELSE pager
    /\ UNCHANGED <<groups, nextMsgId, nextGroupId, now, userRole, mentorRecs,
                   inflight, db, screen>>

\* the walk has ended: no cursor to follow
PagerDone == pager.open /\ (pager.nextCursor = NoId \/ ~pager.hasMoreMessages)

(***************************************************************************)
(* Requests in steps.  A handler awaits each store operation, and requests *)
(* of other callers run between two awaits; each action here is one store  *)
(* operation of a handler, with the local values the handler carries to    *)
(* its next operation kept in inflight.  updateMany checks its filter and  *)
(* applies its update to one document at a time, over the documents that   *)
(* matched when it began.  A route action above is its steps run without   *)
(* another request in between.                                             *)
(***************************************************************************)
\* the local values of a request between two store operations
Request(op, user, peer, group, content) ==
    [op |-> op, user |-> user, peer |-> peer, group |-> group, content |-> content,
     stage |-> "found", page |-> <<>>, nextCursor |-> NoId, ids |-> {}]

RemoveAt(reqs, i) == SubSeq(reqs, 1, i - 1) \o SubSeq(reqs, i + 1, Len(reqs))

\* POST /messages up to Message.findOne: validation, sender and thread lookup
SendLookup(s, receiverId, content) ==
    /\ IF receiverId = NoUser \/ content = NoContent
       THEN resp' = Resp(400) /\ UNCHANGED inflight
       ELSE IF userRole[s] = NoDoc
       THEN resp' = Resp(404) /\ UNCHANGED inflight
       ELSE IF ~MaySend(messages, s, receiverId)
       THEN resp' = Resp(403) /\ UNCHANGED inflight
       ELSE /\ inflight' = Append(inflight,
                                  Request("send", s, receiverId, NoId, content))
            /\ UNCHANGED resp
    /\ UNCHANGED <<messages, groups, nextMsgId, nextGroupId, now, userRole,
                   mentorRecs, pager, db, screen>>

\* POST /messages from Message.create on
SendCreate(i) ==
    /\ i \in DOMAIN inflight
    /\ inflight[i].op = "send"
    /\ \E t \in {now, now + 1} :
          /\ messages' = Append(messages,
                            NewDirectMessage(nextMsgId, inflight[i].user,
                                inflight[i].peer, inflight[i].content, t))
          /\ now' = t
    /\ nextMsgId' = nextMsgId + 1
    /\ resp' = [Resp(200) EXCEPT !.id = nextMsgId]
    /\ inflight' = RemoveAt(inflight, i)
    /\ UNCHANGED <<groups, nextGroupId, userRole, mentorRecs, pager, db, screen>>

\* POST /groups/:groupId/messages up to Group.findOne
SendGroupLookup(m, g, content) ==
    /\ IF content = NoContent
       THEN resp' = Resp(400) /\ UNCHANGED inflight
       ELSE IF g \notin DOMAIN groups \/ ~IsMember(groups[g], m)
       THEN resp' = Resp(404) /\ UNCHANGED inflight
       ELSE /\ inflight' = Append(inflight,
                                  Request("sendGroup", m, NoUser, g, content))
            /\ UNCHANGED resp
    /\ UNCHANGED <<messages, groups, nextMsgId, nextGroupId, now, userRole,
                   mentorRecs, pager, db, screen>>

\* POST /groups/:groupId/messages from Message.create on
SendGroupCreate(i) ==
    /\ i \in DOMAIN inflight
    /\ inflight[i].op = "sendGroup"
    /\ \E t \in {now, now + 1} :
          /\ messages' = Append(messages,
                            NewGroupMessage(nextMsgId, inflight[i].user,
                                inflight[i].group, inflight[i].content, t))
          /\ now' = t
    /\ nextMsgId' = nextMsgId + 1
    /\ resp' = [Resp(200) EXCEPT !.id = nextMsgId]
    /\ inflight' = RemoveAt(inflight, i)
    /\ UNCHANGED <<groups, nextGroupId, userRole, mentorRecs, pager, db, screen>>

\* DELETE /groups/:groupId up to the permission check
DeleteLookup(u, g) ==
    /\ IF g \notin DOMAIN groups \/ userRole[u] = NoDoc
       THEN resp' = Resp(404) /\ UNCHANGED inflight
       ELSE IF ~CanManageGroup(u, groups[g])
       THEN resp' = Resp(403) /\ UNCHANGED inflight
       ELSE /\ inflight' = Append(inflight, Request("delete", u, NoUser, g, NoContent))
            /\ UNCHANGED resp
    /\ UNCHANGED <<messages, groups, nextMsgId, nextGroupId, now, userRole,
                   mentorRecs, pager, db, screen>>

\* DELETE /groups/:groupId: Message.deleteMany({ group })
DeleteMessagesStep(i) ==
    /\ i \in DOMAIN inflight
    /\ inflight[i].op = "delete"
    /\ inflight[i].stage = "found"
    /\ messages' = DeleteGroupMessages(messages, inflight[i].group)
    /\ inflight' = [inflight EXCEPT ![i].stage = "emptied"]
    /\ UNCHANGED <<groups, nextMsgId, nextGroupId, now, userRole, mentorRecs,
                   resp, pager, db, screen>>

\* DELETE /groups/:groupId: Group.findByIdAndDelete, and the answer
DeleteRecordStep(i) ==
    /\ i \in DOMAIN inflight
    /\ inflight[i].op = "delete"
    /\ inflight[i].stage = "emptied"
    /\ groups' = [h \in DOMAIN groups \ {inflight[i].group} |-> groups[h]]
    /\ resp' = Resp(200)
    /\ inflight' = RemoveAt(inflight, i)
    /\ UNCHANGED <<messages, nextMsgId, nextGroupId, now, userRole, mentorRecs,
                   pager, db, screen>>

\* the filter of the updateMany of GET /messages/:userId
DirectUnreadFilter(m, a, b) == m.sender = b /\ m.receiver = a /\ ~m.isRead

\* GroupUnreadFilter without the readBy condition
GroupUnreadFilterAnyLog(m, u, g) == m.group = g

\* the filter of the updateMany of GET /groups/:groupId/messages
GroupUnreadFilter(m, u, g) == m.group = g /\ u \notin Readers(m)

\* GET /messages/:userId up to Message.find: the page is read
FetchFind(a, b, q, cursor) ==
    /\ \E out \in PageOutcomes(DirectThread(messages, a, b), q, cursor) :
          inflight' = Append(inflight,
              [Request("fetch", a, b, NoId, NoContent)
                  EXCEPT !.page = out.page, !.nextCursor = out.nextCursor])
    /\ UNCHANGED <<messages, groups, nextMsgId, nextGroupId, now, userRole,
                   mentorRecs, resp, pager, db, screen>>

\* GET /groups/:groupId/messages up to Message.find
FetchGroupFind(m, g, q, cursor) ==
    /\ IF g \notin DOMAIN groups
       THEN resp' = Resp(404) /\ UNCHANGED inflight
       ELSE IF ~IsMember(groups[g], m)
       THEN resp' = Resp(403) /\ UNCHANGED inflight
       ELSE /\ \E out \in PageOutcomes(GroupThread(messages, g), q, cursor) :
                  inflight' = Append(inflight,
                      [Request("fetchGroup", m, NoUser, g, NoContent)
                          EXCEPT !.page = out.page, !.nextCursor = out.nextCursor])
            /\ UNCHANGED resp
    /\ UNCHANGED <<messages, groups, nextMsgId, nextGroupId, now, userRole,
                   mentorRecs, pager, db, screen>>

\* the document matches the filter of the updateMany of request r
Matches(r, m) ==
    IF r.op = "fetch" THEN DirectUnreadFilter(m, r.user, r.peer)
    ELSE GroupUnreadFilter(m, r.user, r.group)

\* updateMany begins: the documents that match now are the ones it will visit
UpdateManyBegin(i) ==
    /\ i \in DOMAIN inflight
    /\ inflight[i].op \in {"fetch", "fetchGroup"}
    /\ inflight[i].stage = "found"
    /\ inflight' = [inflight EXCEPT
          ![i].stage = "updating",
          ![i].ids = {m.id : m \in {k \in MsgSet : Matches(inflight[i], k)}}]
    /\ UNCHANGED <<messages, groups, nextMsgId, nextGroupId, now, userRole,
                   mentorRecs, resp, pager, db, screen>>

\* updateMany visits one document: if it still matches, $set and $push
UpdateManyVisit(i, id) ==
    /\ i \in DOMAIN inflight
    /\ inflight[i].stage = "updating"
    /\ id \in inflight[i].ids
    /\ messages' = [k \in DOMAIN messages |->
          IF messages[k].id = id /\ Matches(inflight[i], messages[k])
          THEN [messages[k] EXCEPT
                  !.isRead = IF inflight[i].op = "fetch" THEN TRUE ELSE @,
                  !.readBy = Append(@, [user |-> inflight[i].user])]
          ELSE messages[k]]
    /\ inflight' = [inflight EXCEPT ![i].ids = @ \ {id}]
    /\ UNCHANGED <<groups, nextMsgId, nextGroupId, now, userRole, mentorRecs,
                   resp, pager, db, screen>>

\* updateMany has visited every document: the page read at first is answered
FetchAnswer(i) ==
    /\ i \in DOMAIN inflight
    /\ inflight[i].stage = "updating"
    /\ inflight[i].ids = {}
    /\ resp' = [Resp(200) EXCEPT !.page = inflight[i].page,
                                 !.nextCursor = inflight[i].nextCursor]
    /\ inflight' = RemoveAt(inflight, i)
    /\ UNCHANGED <<messages, groups, nextMsgId, nextGroupId, now, userRole,
                   mentorRecs, pager, db, screen>>

(***************************************************************************)
(* Database connection.  db.readyState is mongoose.connection.readyState   *)
(* (0 disconnected, 1 connected, 2 connecting), db.connecting says which   *)
(* call of connectToDatabase is waiting on mongoose.connect, db.timers     *)
(* counts the setTimeout callbacks not yet run and db.started says         *)
(* whether startServer has made its call.  The delay of a timer is left    *)
(* out: a pending timer may run at any later step.                         *)
(***************************************************************************)
NotDb ==
    <<messages, groups, nextMsgId, nextGroupId, now, userRole, mentorRecs,
      resp, pager, inflight, screen>>

\* setTimeout(() => connectToDatabase(true), RECONNECT_DELAY)
SetTimeout(d) == [d EXCEPT !.timers = @ + 1]

\* reconnectAttempts++; if (reconnectAttempts < MAX_RECONNECT_ATTEMPTS) setTimeout
CountAndRetry(d) ==
    LET c == [d EXCEPT !.reconnectAttempts = @ + 1]
    IN IF c.reconnectAttempts < MAX_RECONNECT_ATTEMPTS THEN SetTimeout(c) ELSE c

\* connectToDatabase(isRetry) up to await mongoose.connect
ConnectBegin(d, isRetry) ==
    IF d.readyState >= 1
    THEN d
    ELSE [d EXCEPT !.readyState = 2,
                   !.connecting = IF isRetry THEN "retry" ELSE "initial"]

\* startServer: await connectToDatabase()
StartServer ==
    /\ ~db.started
    /\ db' = [ConnectBegin(db, FALSE) EXCEPT !.started = TRUE]
    /\ UNCHANGED NotDb

\* mongoose.connect resolves: reconnectAttempts = 0 (also what the
\* 'connected' handler does)
ConnectSucceeds ==
    /\ db.connecting # "none"
    /\ db' = [db EXCEPT !.readyState = 1, !.connecting = "none",
                        !.reconnectAttempts = 0]
    /\ UNCHANGED NotDb

\* mongoose.connect rejects: the catch block of connectToDatabase
ConnectFails ==
    /\ db.connecting # "none"
    /\ LET c == [db EXCEPT !.readyState = 0, !.connecting = "none",
                           !.reconnectAttempts = @ + 1]
       IN db' = IF db.connecting = "initial"
                THEN c
                ELSE IF c.reconnectAttempts >= MAX_RECONNECT_ATTEMPTS
                     THEN c
                     ELSE SetTimeout(c)
    /\ UNCHANGED NotDb

\* mongoose.connection.on('error')
OnError ==
    /\ db.started
    /\ db' = CountAndRetry(db)
    /\ UNCHANGED NotDb

\* mongoose.connection.on('disconnected'): an open connection is lost
OnDisconnected ==
    /\ db.readyState = 1
    /\ db' = CountAndRetry([db EXCEPT !.readyState = 0])
    /\ UNCHANGED NotDb

\* mongoose.connection.on('reconnected'): the driver is back by itself
OnReconnected ==
    /\ db.started
    /\ db.readyState = 0
    /\ db' = [db EXCEPT !.readyState = 1, !.reconnectAttempts = 0]
    /\ UNCHANGED NotDb

\* a reconnect timer runs: connectToDatabase(true)
TimerFires ==
    /\ db.timers > 0
    /\ db' = ConnectBegin([db EXCEPT !.timers = @ - 1], TRUE)
    /\ UNCHANGED NotDb

(***************************************************************************)
(* Conversations screen: the client that shows the conversation list and   *)
(* the group list.  A row is what the sort reads of an entry: whose entry  *)
(* it is and the createdAt of its lastMessage.                             *)
(***************************************************************************)
\* lastMessage: null of a group without messages
NoTime == -1

\* the clock of the model counts from the start of the server; Date values
\* count from 1970, so getTime() of a stored createdAt is above 0
ServerEpoch == 1

\* new Date(createdAt).getTime()
GetTime(createdAt) == ServerEpoch + createdAt

\* every order of the elements of S
Orderings(S) ==
    {o \in [1..Cardinality(S) -> S] : \A i, j \in DOMAIN o : i # j => o[i] # o[j]}

\* the array GET /conversations answers to u: the entries of the aggregation,
\* in the order $group leaves them, which is unspecified
ConversationRows(u) ==
    UNION {{[i \in DOMAIN o |->
                [id |-> o[i], createdAt |-> MsgById(list[o[i]].lastMessage).createdAt]] :
              o \in Orderings(DOMAIN list)} : list \in ConversationLists(u)}

\* createdAt of Message.findOne({group: g}).sort({createdAt: -1}), or null
GroupLastTime(g) ==
    IF GroupThread(messages, g) = {} THEN NoTime
    ELSE CHOOSE t \in {m.createdAt : m \in GroupThread(messages, g)} :
             \A m \in GroupThread(messages, g) : t >= m.createdAt

\* the array GET /groups answers to u: the groups of u, in the order of a
\* find() without a sort, which is unspecified
GroupRows(u) ==
    {[i \in DOMAIN o |-> [id |-> o[i], createdAt |-> GroupLastTime(o[i])]] :
        o \in Orderings(DOMAIN GroupList(u))}

\* a.lastMessage?.createdAt ? new Date(a.lastMessage.createdAt).getTime() : 0
RowTime(row) == IF row.createdAt = NoTime THEN 0 ELSE GetTime(row.createdAt)

\* SortedRows that leaves the array as the server sent it
SortedRowsAsSent(rows) == rows

\* [...rows].sort((a, b) => bTime - aTime): a stable sort, larger time first
RECURSIVE SortedRows(_)
SortedRows(rows) ==
    IF rows = <<>> THEN <<>>
    ELSE LET front == SortedRows(SubSeq(rows, 1, Len(rows) - 1))
             last == rows[Len(rows)]
             k == Cardinality({i \in DOMAIN front : RowTime(front[i]) >= RowTime(last)})
         IN SubSeq(front, 1, k) \o <<last>> \o SubSeq(front, k + 1, Len(front))

\* loadData of user u: both lists fetched, sorted and put on display.  A
\* failed request leaves the lists on display as they were.
LoadData(u) ==
    /\ \E cs \in ConversationRows(u), gs \in GroupRows(u) :
          screen' = [conversationsData |-> cs, conversations |-> SortedRows(cs),
                     groupsData |-> gs, groups |-> SortedRows(gs)]
    /\ UNCHANGED <<messages, groups, nextMsgId, nextGroupId, now, userRole,
                   mentorRecs, resp, pager, inflight, db>>

(***************************************************************************)
(* Specifications.  Each draws its requests from the sets named in it and  *)
(* stops creating documents at its bound.                                  *)
(***************************************************************************)
Limits == 0..MaxLimit

MemberIdLists == {<<>>} \cup {<<x>> : x \in Users} \cup {<<x, y>> : x, y \in Users}

\* the chat screen of u1 or u2 over one direct thread and one group thread
ChatUsers == {"u1", "u2"}

ChatSend ==
    \E s, r \in ChatUsers, c \in Contents :
        nextMsgId <= MaxWalk /\ SendMessage(s, r, c)

ChatCreateGroup ==
    /\ nextGroupId <= MaxGroups
    /\ CreateGroup("u1", "g", NoText, TRUE, <<"u2">>, FALSE, NoOpp)

ChatSendGroup ==
    \E m \in ChatUsers, g \in 1..MaxGroups, c \in Contents :
        nextMsgId <= MaxWalk /\ SendGroupMessage(m, g, c)

ChatLoad ==
    \E a, peer \in ChatUsers, isGroup \in BOOLEAN, g \in 1..MaxGroups,
       q \in (1..MaxLimit) \cup {ClientPageSize} :
        LoadMessages(a, isGroup, peer, g, q)

NextChat ==
    \/ ChatSend
    \/ ChatCreateGroup
    \/ ChatSendGroup
    \/ ChatLoad
    \/ LoadOlderMessages

SpecChat == Init /\ [][NextChat]_vars

\* the paging engine over the direct thread between u1 and u2
PagingSend ==
    \E s, r \in ChatUsers, c \in Contents :
        s # r /\ nextMsgId <= MaxThread /\ SendMessage(s, r, c)

PagingGet ==
    \E a, b \in ChatUsers, q \in Limits, c \in 0..MaxThread :
        a # b /\ GetMessages(a, b, q, c)

NextPaging ==
    \/ PagingSend
    \/ PagingGet

SpecPaging == Init /\ [][NextPaging]_vars

\* the direct-message routes, by any user, beside one group thread
DirectSend ==
    \E s \in Users, r \in Users \cup {NoUser}, c \in Contents \cup {NoContent} :
        nextMsgId <= MaxMsgs /\ SendMessage(s, r, c)

DirectGet ==
    \E a, b \in Users, q \in {0, 1}, c \in {NoId, 1} : GetMessages(a, b, q, c)

DirectMarkRead == \E a, b \in Users : MarkConversationRead(a, b)

DirectConversations == \E u \in Users : GetConversations(u)

DirectCreateGroup ==
    /\ nextGroupId <= MaxGroups
    /\ CreateGroup("u1", "g", NoText, TRUE, <<"u2", "u3">>, FALSE, NoOpp)

DirectSendGroup ==
    \E m \in Users, g \in 1..MaxGroups, c \in Contents :
        nextMsgId <= MaxMsgs /\ SendGroupMessage(m, g, c)

NextDirect ==
    \/ DirectSend
    \/ DirectGet
    \/ DirectMarkRead
    \/ DirectConversations
    \/ DirectCreateGroup
    \/ DirectSendGroup

SpecDirect == Init /\ [][NextDirect]_vars

\* the group-thread routes, by any user, beside one direct thread
GroupMsgCreate ==
    \E u \in Users, ids \in {<<"u2">>, <<"u2", "u3">>} :
        nextGroupId <= MaxGroups /\ CreateGroup(u, "g", NoText, TRUE, ids, FALSE, NoOpp)

GroupMsgSend ==
    \E m \in Users, g \in 1..MaxGroups, c \in Contents \cup {NoContent} :
        nextMsgId <= MaxMsgs /\ SendGroupMessage(m, g, c)

GroupMsgGet ==
    \E m \in Users, g \in 1..MaxGroups, q \in {0, 1}, c \in {NoId, 1} :
        GetGroupMessages(m, g, q, c)

GroupMsgList == \E u \in Users : GetGroups(u)

GroupMsgDelete == \E u \in Users, g \in 1..MaxGroups : DeleteGroup(u, g)

GroupMsgSendDirect ==
    \E c \in Contents : nextMsgId <= MaxMsgs /\ SendMessage("u1", "u2", c)

NextGroupMsg ==
    \/ GroupMsgCreate
    \/ GroupMsgSend
    \/ GroupMsgGet
    \/ GroupMsgList
    \/ GroupMsgDelete
    \/ GroupMsgSendDirect

SpecGroupMsg == Init /\ [][NextGroupMsg]_vars

\* the group routes, by any user with any request, over groups without messages
GroupsCreate ==
    \E u \in Users, n \in Names \cup {NoText}, d \in Descriptions \cup {NoText},
       hasIds \in BOOLEAN, ids \in MemberIdLists, isOrg \in BOOLEAN,
       opp \in Opps \cup {NoOpp} :
        nextGroupId <= MaxGroups /\ CreateGroup(u, n, d, hasIds, ids, isOrg, opp)

GroupsUpdate ==
    \E u \in Users, g \in 1..MaxGroups, n \in Names \cup {NoText},
       d \in Descriptions \cup {NoText} : UpdateGroup(u, g, n, d)

GroupsAddMembers ==
    \E u \in Users, g \in 1..MaxGroups, hasIds \in BOOLEAN, ids \in MemberIdLists :
        AddMembers(u, g, hasIds, ids)

GroupsRemoveMember ==
    \E u \in Users, g \in 1..MaxGroups, x \in Users : RemoveMember(u, g, x)

GroupsDelete == \E u \in Users, g \in 1..MaxGroups : DeleteGroup(u, g)

GroupsList == \E u \in Users : GetGroups(u)

NextGroups ==
    \/ GroupsCreate
    \/ GroupsUpdate
    \/ GroupsAddMembers
    \/ GroupsRemoveMember
    \/ GroupsDelete
    \/ GroupsList

SpecGroups == Init /\ [][NextGroups]_vars

\* the group routes under every kind of actor: u1 an admin or an organization,
\* u2 a volunteer, u3 a mentor, a volunteer, a user without a role or no user
\* at all, with mentor assignments for the opportunity asked for, for another
\* one, or none
PermRoleConfigs ==
    {[u \in Users |-> CASE u = "u1" -> r1
                        [] u = "u2" -> "volunteer"
                        [] OTHER -> r3] :
        r1 \in {"admin", "organization"},
        r3 \in {"mentor", "unset", "volunteer", NoDoc}}

PermMentorConfigs ==
    {{}, {<<"u2", "o1">>}, {<<"u2", "o2">>}, {<<"u3", "o1">>},
     {<<"u2", "o1">>, <<"u3", "o1">>}, {<<"u2", "o2">>, <<"u3", "o1">>}}

PermMemberIdLists == {<<>>, <<"u3">>, <<"u2", "u3">>, <<"u3", "u3">>}

InitPerm ==
    /\ messages = <<>>
    /\ groups = <<>>
    /\ nextMsgId = 1
    /\ nextGroupId = 1
    /\ now = 0
    /\ userRole \in PermRoleConfigs
    /\ mentorRecs \in PermMentorConfigs
    /\ resp = Resp(0)
    /\ pager = ClosedPager
    /\ inflight = <<>>
    /\ db = DbAtLoad
    /\ screen = EmptyScreen

PermCreate ==
    \E u \in Users, n \in Names \cup {NoText}, hasIds \in BOOLEAN,
       ids \in PermMemberIdLists, isOrg \in BOOLEAN, opp \in Opps \cup {NoOpp} :
        nextGroupId <= MaxGroups /\ CreateGroup(u, n, NoText, hasIds, ids, isOrg, opp)

PermUpdate ==
    \E u \in Users, g \in 1..MaxGroups, d \in Descriptions \cup {NoText} :
        UpdateGroup(u, g, NoText, d)

PermAddMembers ==
    \E u \in Users, g \in 1..MaxGroups, hasIds \in BOOLEAN, ids \in PermMemberIdLists :
        AddMembers(u, g, hasIds, ids)

PermRemoveMember ==
    \E u \in Users, g \in 1..MaxGroups, x \in Users : RemoveMember(u, g, x)

PermDelete == \E u \in Users, g \in 1..MaxGroups : DeleteGroup(u, g)

NextPerm ==
    \/ PermCreate
    \/ PermUpdate
    \/ PermAddMembers
    \/ PermRemoveMember
    \/ PermDelete

SpecPerm == InitPerm /\ [][NextPerm]_vars

\* the send routes under every kind of sender: u1 an admin or an organization,
\* u2 a volunteer, u3 a mentor or a user without a role
InitiateRoleConfigs ==
    {[u \in Users |-> CASE u = "u1" -> r1
                        [] u = "u2" -> "volunteer"
                        [] OTHER -> r3] :
        r1 \in {"admin", "organization"}, r3 \in {"mentor", "unset"}}

InitInitiate ==
    /\ messages = <<>>
    /\ groups = <<>>
    /\ nextMsgId = 1
    /\ nextGroupId = 1
    /\ now = 0
    /\ userRole \in InitiateRoleConfigs
    /\ mentorRecs \in MentorConfigs
    /\ resp = Resp(0)
    /\ pager = ClosedPager
    /\ inflight = <<>>
    /\ db = DbAtLoad
    /\ screen = EmptyScreen

InitiateSend ==
    \E s \in Users, r \in Users \cup {NoUser}, c \in Contents \cup {NoContent} :
        nextMsgId <= MaxMsgs /\ SendMessage(s, r, c)

InitiateMarkRead == \E a, b \in Users : MarkConversationRead(a, b)

InitiateCreateGroup ==
    /\ nextGroupId <= MaxGroups
    /\ CreateGroup("u1", "g", NoText, TRUE, <<"u2", "u3">>, FALSE, NoOpp)

InitiateSendGroup ==
    \E m \in Users, g \in 1..MaxGroups, c \in Contents :
        nextMsgId <= MaxMsgs /\ SendGroupMessage(m, g, c)

NextInitiate ==
    \/ InitiateSend
    \/ InitiateMarkRead
    \/ InitiateCreateGroup
    \/ InitiateSendGroup

SpecInitiate == InitInitiate /\ [][NextInitiate]_vars

\* two groups of u1 with changing membership, their threads as read and
\* written by u2 and u3, and one direct thread
GateCreate ==
    /\ nextGroupId <= MaxGateGroups
    /\ CreateGroup("u1", "g", NoText, TRUE, <<"u2">>, FALSE, NoOpp)

GateAddMembers ==
    \E g \in 1..MaxGateGroups : AddMembers("u1", g, TRUE, <<"u3">>)

GateRemoveMember ==
    \E g \in 1..MaxGateGroups, x \in {"u2", "u3"} : RemoveMember("u1", g, x)

GateGet ==
    \E m \in {"u2", "u3"}, g \in 1..MaxGateGroups : GetGroupMessages(m, g, 0, NoId)

GateSend ==
    \E m \in {"u2", "u3"}, g \in 1..MaxGateGroups, c \in Contents :
        nextMsgId <= MaxMsgs /\ SendGroupMessage(m, g, c)

GateSendDirect ==
    \E c \in Contents : nextMsgId <= MaxMsgs /\ SendMessage("u1", "u2", c)

GateDelete == \E g \in 1..MaxGateGroups : DeleteGroup("u1", g)

NextGate ==
    \/ GateCreate
    \/ GateAddMembers
    \/ GateRemoveMember
    \/ GateGet
    \/ GateSend
    \/ GateSendDirect
    \/ GateDelete

SpecGate == Init /\ [][NextGate]_vars

\* the conversation list of every user over the threads of u1 with u2 and
\* with u3, beside one group thread
ConvPairs == {<<"u1", "u2">>, <<"u2", "u1">>, <<"u1", "u3">>, <<"u3", "u1">>}

ConvSend ==
    \E p \in ConvPairs, c \in Contents :
        nextMsgId <= MaxConvMsgs /\ SendMessage(p[1], p[2], c)

ConvMarkRead == \E p \in ConvPairs : MarkConversationRead(p[1], p[2])

ConvCreateGroup ==
    /\ nextGroupId <= MaxGroups
    /\ CreateGroup("u1", "g", NoText, TRUE, <<"u2">>, FALSE, NoOpp)

ConvSendGroup ==
    \E m \in ChatUsers, g \in 1..MaxGroups, c \in Contents :
        nextMsgId <= MaxConvMsgs /\ SendGroupMessage(m, g, c)

ConvList == \E u \in Users : GetConversations(u)

NextConv ==
    \/ ConvSend
    \/ ConvMarkRead
    \/ ConvCreateGroup
    \/ ConvSendGroup
    \/ ConvList

SpecConv == Init /\ [][NextConv]_vars

\* the organization u1 and the volunteer u2 exchanging greetings
Greetings == {"Hello", "Hi"}

ScenarioSend ==
    \E s, r \in ChatUsers, c \in Greetings :
        s # r /\ nextMsgId <= MaxMsgs /\ SendMessage(s, r, c)

ScenarioMarkRead ==
    \E a, b \in ChatUsers : a # b /\ MarkConversationRead(a, b)

ScenarioList == \E u \in ChatUsers : GetConversations(u)

NextScenario ==
    \/ ScenarioSend
    \/ ScenarioMarkRead
    \/ ScenarioList

SpecScenario == Init /\ [][NextScenario]_vars

\* the send, create-group and add-members routes under every shape of request
\* body: fields present or absent, with or without an uploaded file
ValidatePost ==
    \E s \in Users, r \in Users \cup {NoUser}, c \in Contents \cup {NoContent},
       f \in Files \cup {NoFile} :
        nextMsgId <= MaxMsgs /\ PostMessage(s, r, c, f)

ValidatePostGroup ==
    \E m \in Users, g \in 1..MaxGroups, c \in Contents \cup {NoContent},
       f \in Files \cup {NoFile} :
        nextMsgId <= MaxMsgs /\ PostGroupMessage(m, g, c, f)

ValidateCreate ==
    \E u \in Users, n \in Names \cup {NoText}, hasIds \in BOOLEAN,
       ids \in {<<>>, <<"u2">>} :
        nextGroupId <= MaxGroups /\ CreateGroup(u, n, NoText, hasIds, ids, FALSE, NoOpp)

ValidateAddMembers ==
    \E u \in Users, g \in 1..MaxGroups, hasIds \in BOOLEAN, ids \in {<<>>, <<"u3">>} :
        AddMembers(u, g, hasIds, ids)

NextValidate ==
    \/ ValidatePost
    \/ ValidatePostGroup
    \/ ValidateCreate
    \/ ValidateAddMembers

SpecValidate == Init /\ [][NextValidate]_vars

\* the group routes asked by permitted and unpermitted actors and by a user
\* without a document, for groups that exist or not, beside stored messages
RejectRoleConfigs ==
    {[u \in Users |-> CASE u = "u1" -> "organization"
                        [] u = "u2" -> "volunteer"
                        [] OTHER -> r3] : r3 \in {"volunteer", NoDoc}}

InitReject ==
    /\ messages = <<>>
    /\ groups = <<>>
    /\ nextMsgId = 1
    /\ nextGroupId = 1
    /\ now = 0
    /\ userRole \in RejectRoleConfigs
    /\ mentorRecs \in MentorConfigs
    /\ resp = Resp(0)
    /\ pager = ClosedPager
    /\ inflight = <<>>
    /\ db = DbAtLoad
    /\ screen = EmptyScreen

RejectCreate ==
    \E u \in Users, n \in Names \cup {NoText}, hasIds \in BOOLEAN,
       ids \in {<<"u2">>, <<"u2", "u3">>}, isOrg \in BOOLEAN, opp \in {NoOpp, "o1"} :
        nextGroupId <= MaxGroups /\ CreateGroup(u, n, NoText, hasIds, ids, isOrg, opp)

RejectSendGroup ==
    \E m \in Users, g \in 1..MaxGroups, c \in Contents :
        nextMsgId <= MaxMsgs /\ SendGroupMessage(m, g, c)

RejectSendDirect ==
    \E c \in Contents : nextMsgId <= MaxMsgs /\ SendMessage("u1", "u2", c)

RejectUpdate ==
    \E u \in Users, g \in 1..MaxGroups, d \in Descriptions \cup {NoText} :
        UpdateGroup(u, g, NoText, d)

RejectAddMembers ==
    \E u \in Users, g \in 1..MaxGroups, hasIds \in BOOLEAN, ids \in {<<>>, <<"u3">>} :
        AddMembers(u, g, hasIds, ids)

RejectRemoveMember ==
    \E u \in Users, g \in 1..MaxGroups, x \in Users : RemoveMember(u, g, x)

RejectDelete == \E u \in Users, g \in 1..MaxGroups : DeleteGroup(u, g)

NextReject ==
    \/ RejectCreate
    \/ RejectSendGroup
    \/ RejectSendDirect
    \/ RejectUpdate
    \/ RejectAddMembers
    \/ RejectRemoveMember
    \/ RejectDelete

SpecReject == InitReject /\ [][NextReject]_vars

\* the conversations screen of u1 and u2 over two direct threads and two groups
ScreenSend ==
    \E p \in ConvPairs, c \in Contents :
        nextMsgId <= MaxConvMsgs /\ SendMessage(p[1], p[2], c)

ScreenCreateGroup ==
    /\ nextGroupId <= MaxGateGroups
    /\ CreateGroup("u1", "g", NoText, TRUE, <<"u2">>, FALSE, NoOpp)

ScreenSendGroup ==
    \E m \in ChatUsers, g \in 1..MaxGateGroups, c \in Contents :
        nextMsgId <= MaxConvMsgs /\ SendGroupMessage(m, g, c)

ScreenLoad == \E u \in ChatUsers : LoadData(u)

NextScreen ==
    \/ ScreenSend
    \/ ScreenCreateGroup
    \/ ScreenSendGroup
    \/ ScreenLoad

SpecScreen == Init /\ [][NextScreen]_vars

\* direct sends by every kind of sender, run in steps, two at a time
OriginLookup ==
    \E s, r \in Users, c \in Contents :
        /\ Len(inflight) < MaxInflight
        /\ nextMsgId + Len(inflight) <= MaxConvMsgs
        /\ SendLookup(s, r, c)

OriginCreate == \E i \in 1..MaxInflight : SendCreate(i)

NextOrigin ==
    \/ OriginLookup
    \/ OriginCreate

SpecOrigin == InitInitiate /\ [][NextOrigin]_vars

\* group sends and group deletions run in steps, two at a time
OrphanCreateGroup ==
    /\ nextGroupId <= MaxGateGroups
    /\ CreateGroup("u1", "g", NoText, TRUE, <<"u2">>, FALSE, NoOpp)

OrphanSendLookup ==
    \E m \in ChatUsers, g \in 1..MaxGateGroups, c \in Contents :
        /\ Len(inflight) < MaxInflight
        /\ nextMsgId + Len(inflight) <= MaxMsgs
        /\ SendGroupLookup(m, g, c)

OrphanSendCreate == \E i \in 1..MaxInflight : SendGroupCreate(i)

OrphanDeleteLookup ==
    \E u \in ChatUsers, g \in 1..MaxGateGroups :
        Len(inflight) < MaxInflight /\ DeleteLookup(u, g)

OrphanDeleteMessages == \E i \in 1..MaxInflight : DeleteMessagesStep(i)

OrphanDeleteRecord == \E i \in 1..MaxInflight : DeleteRecordStep(i)

NextOrphan ==
    \/ OrphanCreateGroup
    \/ OrphanSendLookup
    \/ OrphanSendCreate
    \/ OrphanDeleteLookup
    \/ OrphanDeleteMessages
    \/ OrphanDeleteRecord

SpecOrphan == Init /\ [][NextOrphan]_vars

\* fetches of a direct thread and of a group thread run in steps, two at a
\* time, between sends and explicit mark-reads
ReadLogSend ==
    \E s, r \in ChatUsers, c \in Contents :
        s # r /\ nextMsgId <= MaxMsgs /\ SendMessage(s, r, c)

ReadLogCreateGroup ==
    /\ nextGroupId <= MaxGroups
    /\ CreateGroup("u1", "g", NoText, TRUE, <<"u2">>, FALSE, NoOpp)

ReadLogSendGroup ==
    \E m \in ChatUsers, g \in 1..MaxGroups, c \in Contents :
        nextMsgId <= MaxMsgs /\ SendGroupMessage(m, g, c)

ReadLogMarkRead ==
    \E a, b \in ChatUsers : a # b /\ MarkConversationRead(a, b)

ReadLogFetchFind ==
    \E a, b \in ChatUsers :
        a # b /\ Len(inflight) < MaxInflight /\ FetchFind(a, b, 0, NoId)

ReadLogFetchGroupFind ==
    \E m \in Users, g \in 1..MaxGroups :
        Len(inflight) < MaxInflight /\ FetchGroupFind(m, g, 0, NoId)

ReadLogBegin == \E i \in 1..MaxInflight : UpdateManyBegin(i)

ReadLogVisit == \E i \in 1..MaxInflight, id \in 1..MaxMsgs : UpdateManyVisit(i, id)

ReadLogAnswer == \E i \in 1..MaxInflight : FetchAnswer(i)

NextReadLog ==
    \/ ReadLogSend
    \/ ReadLogCreateGroup
    \/ ReadLogSendGroup
    \/ ReadLogMarkRead
    \/ ReadLogFetchFind
    \/ ReadLogFetchGroupFind
    \/ ReadLogBegin
    \/ ReadLogVisit
    \/ ReadLogAnswer

SpecReadLog == Init /\ [][NextReadLog]_vars

\* the connection module alone: connects, failures and connection events
ReconnectStart == StartServer

ReconnectSucceeds == ConnectSucceeds

ReconnectFails == db.reconnectAttempts < MaxAttempts /\ ConnectFails

ReconnectError ==
    db.reconnectAttempts < MaxAttempts /\ db.timers < MaxTimers /\ OnError

ReconnectDisconnected ==
    db.reconnectAttempts < MaxAttempts /\ db.timers < MaxTimers /\ OnDisconnected

ReconnectReconnected == OnReconnected

ReconnectTimer == TimerFires

NextReconnect ==
    \/ ReconnectStart
    \/ ReconnectSucceeds
    \/ ReconnectFails
    \/ ReconnectError
    \/ ReconnectDisconnected
    \/ ReconnectReconnected
    \/ ReconnectTimer

SpecReconnect == Init /\ [][NextReconnect]_vars

\* the whole server: any request by any user at any time
Next ==
    \/ \E s \in Users, r \in Users \cup {NoUser}, c \in Contents \cup {NoContent},
          f \in Files \cup {NoFile} : PostMessage(s, r, c, f)
    \/ \E a, b \in Users, q \in Nat, c \in Nat : GetMessages(a, b, q, c)
    \/ \E a, b \in Users : MarkConversationRead(a, b)
    \/ \E u \in Users : GetConversations(u)
    \/ \E u \in Users : GetGroups(u)
    \/ \E m \in Users, g \in Nat, q \in Nat, c \in Nat : GetGroupMessages(m, g, q, c)
    \/ \E m \in Users, g \in Nat, c \in Contents \cup {NoContent},
          f \in Files \cup {NoFile} : PostGroupMessage(m, g, c, f)
    \/ \E u \in Users, n \in Names \cup {NoText}, d \in Descriptions \cup {NoText},
          hasIds \in BOOLEAN, ids \in Seq(Users), isOrg \in BOOLEAN,
          opp \in Opps \cup {NoOpp} :
          CreateGroup(u, n, d, hasIds, ids, isOrg, opp)
    \/ \E u \in Users, g \in Nat, n \in Names \cup {NoText},
          d \in Descriptions \cup {NoText} : UpdateGroup(u, g, n, d)
    \/ \E u \in Users, g \in Nat, hasIds \in BOOLEAN, ids \in Seq(Users) :
          AddMembers(u, g, hasIds, ids)
    \/ \E u \in Users, g \in Nat, x \in Users : RemoveMember(u, g, x)
    \/ \E u \in Users, g \in Nat : DeleteGroup(u, g)
    \/ \E u \in Users : LoadData(u)
    \/ \E s \in Users, r \in Users \cup {NoUser}, c \in Contents \cup {NoContent} :
          SendLookup(s, r, c)
    \/ \E m \in Users, g \in Nat, c \in Contents \cup {NoContent} :
          SendGroupLookup(m, g, c)
    \/ \E u \in Users, g \in Nat : DeleteLookup(u, g)
    \/ \E a, b \in Users, q \in Nat, cursor \in Nat \cup {NoId} :
          FetchFind(a, b, q, cursor)
    \/ \E m \in Users, g \in Nat, q \in Nat, cursor \in Nat \cup {NoId} :
          FetchGroupFind(m, g, q, cursor)
    \/ \E i \in DOMAIN inflight :
          \/ SendCreate(i)
          \/ SendGroupCreate(i)
          \/ DeleteMessagesStep(i)
          \/ DeleteRecordStep(i)
          \/ UpdateManyBegin(i)
          \/ \E id \in 1..Len(messages) : UpdateManyVisit(i, id)
          \/ FetchAnswer(i)
    \/ StartServer
    \/ ConnectSucceeds
    \/ ConnectFails
    \/ OnError
    \/ OnDisconnected
    \/ OnReconnected
    \/ TimerFires

Spec == Init /\ [][Next]_vars

(***************************************************************************)
(* C1  Pagination completeness: a walk from the first page along the       *)
(* returned cursors, once it has ended, holds every message the thread     *)
(* held when the walk began exactly once, oldest first.                    *)
(***************************************************************************)
C1_WalkComplete ==
    PagerDone =>
        /\ Range(pager.messages) = pager.atOpen
        /\ Len(pager.messages) = Cardinality(pager.atOpen)
        /\ \A i, j \in DOMAIN pager.messages :
              i < j => MsgById(pager.messages[i]).createdAt
                          <= MsgById(pager.messages[j]).createdAt

(***************************************************************************)
(* C2  Page contract: a fetch with limit L and cursor c returns the L      *)
(* newest messages with identifier below c, oldest first, and a nextCursor *)
(* exactly when more than L matched, namely the identifier of the          *)
(* (L+1)-th newest.                                                        *)
(***************************************************************************)
\* the identifiers of S, newest first
RECURSIVE IdsDesc(_)
IdsDesc(S) ==
    IF S = {} THEN <<>>
    ELSE LET top == CHOOSE x \in S : \A y \in S : x >= y
         IN <<top>> \o IdsDesc(S \ {top})

C2_PageContract ==
    \A a, b \in ChatUsers, q \in 1..MaxLimit, c \in 0..(nextMsgId - 1) :
        LET matched == {m.id : m \in CursorFilter(DirectThread(messages, a, b), c)}
            desc == IdsDesc(matched)
        IN \A out \in PageOutcomes(DirectThread(messages, a, b), q, c) :
              /\ out.page = Reverse(Take(desc, q))
              /\ out.nextCursor = IF Len(desc) > q THEN desc[q + 1] ELSE NoId

(***************************************************************************)
(* C3  Insertion stability: sending a message changes the answer to no     *)
(* fetch at a cursor issued before the send, whatever the limit.           *)
(***************************************************************************)
C3_InsertionStable ==
    [][nextMsgId' = nextMsgId + 1 =>
          \A a, b \in ChatUsers, q \in Limits, c \in 1..(nextMsgId - 1) :
              PageOutcomes(DirectThread(messages', a, b), q, c)
                  = PageOutcomes(DirectThread(messages, a, b), q, c)]_vars

C3_Witness ==
    /\ resp.status = 200
    /\ resp.id = nextMsgId - 1
    /\ \E a, b \in ChatUsers, c \in 1..(nextMsgId - 2) :
          /\ Cardinality(DirectThread(messages, a, b)) > 3
          /\ resp.id \in {m.id : m \in DirectThread(messages, a, b)}
          /\ \E out \in PageOutcomes(DirectThread(messages, a, b), 1, c) :
                out.page # <<>>

(***************************************************************************)
(* C4  Direct unread accounting: a fetch or mark-read by a for b leaves    *)
(* a's unread count for b at 0; only a message sent by b to a raises it,   *)
(* and by exactly 1.                                                       *)
(***************************************************************************)
SentBy(s, r) ==
    /\ nextMsgId' = nextMsgId + 1
    /\ \E c \in Contents : SendMessage(s, r, c)

Fetched(a, b) ==
    /\ nextMsgId' = nextMsgId
    /\ resp'.status = 200
    /\ \E q \in {0, 1}, c \in {NoId, 1} : GetMessages(a, b, q, c)

GroupFetched(u, g) ==
    /\ nextMsgId' = nextMsgId
    /\ resp'.status = 200
    /\ \E q \in {0, 1}, c \in {NoId, 1} : GetGroupMessages(u, g, q, c)

C4_UnreadAccounting ==
    [][\A a, b \in Users :
          /\ Fetched(a, b) => ConvUnreadCount(a, b)' = 0
          /\ MarkConversationRead(a, b) => ConvUnreadCount(a, b)' = 0
          /\ IF SentBy(b, a)
             THEN ConvUnreadCount(a, b)' = ConvUnreadCount(a, b) + 1
             ELSE ConvUnreadCount(a, b)' <= ConvUnreadCount(a, b)]_vars

C4_Witness ==
    \E a, b \in Users :
        /\ a # b
        /\ ConvUnreadCount(a, b) = 1
        /\ \E m \in DirectThread(messages, a, b) :
              m.sender = b /\ m.receiver = a /\ m.isRead /\ Readers(m) = {a}

(***************************************************************************)
(* C5  A direct fetch by a for b marks read exactly the unread messages    *)
(* from b to a, adding one readBy entry for a to each; every other         *)
(* message, direct or group, is left as it was.                            *)
(***************************************************************************)
C5_FetchMarksRead ==
    [][\A a, b \in Users :
          Fetched(a, b) =>
              /\ Len(messages') = Len(messages)
              /\ \A i \in DOMAIN messages :
                    IF /\ messages[i].sender = b
                       /\ messages[i].receiver = a
                       /\ ~messages[i].isRead
                    THEN /\ messages'[i].isRead
                         /\ Len(messages'[i].readBy) = Len(messages[i].readBy) + 1
                         /\ messages'[i].readBy[Len(messages'[i].readBy)].user = a
                         /\ [messages'[i] EXCEPT !.isRead = FALSE,
                                                 !.readBy = messages[i].readBy]
                               = messages[i]
                    ELSE messages'[i] = messages[i]]_vars

C5_Witness ==
    \E i, k \in DOMAIN messages :
        /\ messages[i].group = NoId
        /\ messages[i].isRead
        /\ messages[i].readBy = <<[user |-> messages[i].receiver]>>
        /\ messages[k].group # NoId

(***************************************************************************)
(* C6  Mark-conversation-read by a for b sets isRead on the messages from  *)
(* b to a and on no other, answers the number it flipped, and a repeated   *)
(* call would flip nothing.                                                *)
(***************************************************************************)
C6_MarkRead ==
    [][\A a, b \in Users :
          MarkConversationRead(a, b) =>
              /\ Len(messages') = Len(messages)
              /\ \A i \in DOMAIN messages :
                    messages'[i] =
                        IF messages[i].sender = b /\ messages[i].receiver = a
                        THEN [messages[i] EXCEPT !.isRead = TRUE]
                        ELSE messages[i]
              /\ resp'.updatedCount =
                    Cardinality({i \in DOMAIN messages :
                                    messages'[i].isRead # messages[i].isRead})
              /\ ModifiedCount(messages', a, b) = 0
              /\ ReadDirectExplicit(messages', a, b) = messages']_vars

C6_Witness ==
    /\ resp.updatedCount > 0
    /\ \E m \in MsgSet : m.isRead /\ m.readBy = <<>>

(***************************************************************************)
(* C7  Group unread count: list-groups reports to member u the number of   *)
(* the group's messages that u did not send and whose readBy has no entry  *)
(* for u; a fetched message counts 0 for the fetcher, a new one counts 0   *)
(* for its author and 1 for everyone else.                                 *)
(***************************************************************************)
Unseen(m, u) == m.sender # u /\ u \notin Readers(m)

C7_CountIsUnseen ==
    \A g \in DOMAIN groups, u \in Users :
        Contains(groups[g].members, u) =>
            GroupList(u)[g] =
                Cardinality({m \in MsgSet : m.group = g /\ Unseen(m, u)})

C7_GroupUnread ==
    [][/\ C7_CountIsUnseen'
       /\ \A u \in Users, g \in 1..MaxGroups :
             /\ GroupFetched(u, g)
                   => \A i \in DOMAIN messages :
                         messages[i].group = g =>
                             /\ ~Unseen(messages'[i], u)
                             /\ \A v \in Users \ {u} :
                                   Unseen(messages'[i], v) = Unseen(messages[i], v)
             /\ (nextMsgId' = nextMsgId + 1 /\ \E c \in Contents : SendGroupMessage(u, g, c))
                   => LET new == messages'[Len(messages')]
                      IN /\ new.group = g
                         /\ \A v \in Users : Unseen(new, v) = (v # u)]_vars

C7_Witness ==
    \E g \in DOMAIN groups, m \in MsgSet, a, b \in Users :
        /\ m.group = g
        /\ Cardinality({m.sender, a, b}) = 3
        /\ {m.sender, a, b} \subseteq Range(groups[g].members)
        /\ a \in Readers(m)
        /\ b \notin Readers(m)
        /\ GroupList(a)[g] = 0
        /\ GroupList(b)[g] = 1
        /\ GroupList(m.sender)[g] = 0

C9_AdminInvariant ==
    \A g \in DOMAIN groups : Len(groups[g].admins) >= 1

(***************************************************************************)
(* C10  Creator membership: the creator of every existing group is among   *)
(* its members.                                                            *)
(***************************************************************************)
C10_CreatorIsMember ==
    \A g \in DOMAIN groups : Contains(groups[g].members, groups[g].createdBy)

(***************************************************************************)
(* C11  Admin subset: every admin of every existing group is one of its    *)
(* members after every request, and a successful remove-member leaves its  *)
(* target in neither collection.                                           *)
(***************************************************************************)
AdminsAreMembers ==
    \A g \in DOMAIN groups :
        Range(groups[g].admins) \subseteq Range(groups[g].members)

C11_AdminSubset ==
    [][/\ AdminsAreMembers'
       /\ \A u, x \in Users, g \in DOMAIN groups :
             (resp'.status = 200 /\ RemoveMember(u, g, x))
                 => /\ ~Contains(groups'[g].members, x)
                    /\ ~Contains(groups'[g].admins, x)]_vars

C11_Witness ==
    \E g \in DOMAIN groups :
        /\ Cardinality(Range(groups[g].admins)) >= 2
        /\ Range(groups[g].admins) \subseteq Range(groups[g].members)
        /\ Range(groups[g].admins) # Range(groups[g].members)

(***************************************************************************)
(* C12  Create-group permission: a well-formed request for a group that is *)
(* not an organization group succeeds exactly when the actor is an admin   *)
(* or an organization, or a volunteer holding a mentor record for the      *)
(* opportunity named, or for any opportunity when none is named; a mentor  *)
(* role or no role is always denied.                                       *)
(***************************************************************************)
CreatePermitted(u, opp) ==
    \/ userRole[u] \in {"admin", "organization"}
    \/ /\ userRole[u] = "volunteer"
       /\ \E r \in mentorRecs : r[1] = u /\ (opp = NoOpp \/ r[2] = opp)

\* the step created a group or refused a request
CreateAnswered ==
    \/ nextGroupId' = nextGroupId + 1
    \/ resp'.status = 403 /\ groups' = groups

C12_CreatePermission ==
    [][\A u \in Users, ids \in PermMemberIdLists, opp \in Opps \cup {NoOpp} :
          (/\ CreateAnswered
           /\ userRole[u] # NoDoc
           /\ CreateGroup(u, "g", NoText, TRUE, ids, FALSE, opp))
              => /\ resp'.status = IF CreatePermitted(u, opp) THEN 200 ELSE 403
                 /\ (resp'.status = 200) = (nextGroupId \in DOMAIN groups')
                 /\ userRole[u] \in {"mentor", "unset"} => resp'.status = 403]_vars

C12_Witness ==
    \E g \in DOMAIN groups :
        /\ userRole[groups[g].createdBy] = "volunteer"
        /\ groups[g].opportunityId # NoOpp
        /\ IsMentorFor(groups[g].createdBy, groups[g].opportunityId)
        /\ ~groups[g].isOrganizationGroup
        /\ userRole["u3"] = "mentor"

(***************************************************************************)
(* C13  Organization groups: a request with the organization-group flag    *)
(* succeeds only for an admin; any other actor, an organization or a       *)
(* mentor-assigned volunteer included, is answered 403 and no group is     *)
(* created.                                                                *)
(***************************************************************************)
C13_OrganizationGroupFlag ==
    [][\A u \in Users, ids \in PermMemberIdLists, opp \in Opps \cup {NoOpp} :
          (/\ CreateAnswered
           /\ userRole[u] # NoDoc
           /\ CreateGroup(u, "g", NoText, TRUE, ids, TRUE, opp))
              => IF userRole[u] = "admin"
                 THEN /\ resp'.status = 200
                      /\ groups'[nextGroupId].isOrganizationGroup
                 ELSE /\ resp'.status = 403
                      /\ groups' = groups]_vars

C13_Witness ==
    \E g \in DOMAIN groups :
        /\ groups[g].isOrganizationGroup
        /\ userRole[groups[g].createdBy] = "admin"
        /\ IsMentorAnywhere("u2")

(***************************************************************************)
(* C14  Group-mutation permission: update-group, add-members,              *)
(* remove-member and delete-group let an existing actor past the           *)
(* permission check of an existing group exactly when the actor is an      *)
(* admin or an organization, a group admin, the creator, or a volunteer    *)
(* holding a mentor record for the group's opportunity.                    *)
(***************************************************************************)
ManagePermitted(u, g) ==
    \/ userRole[u] \in {"admin", "organization"}
    \/ u \in Range(groups[g].admins)
    \/ u = groups[g].createdBy
    \/ /\ userRole[u] = "volunteer"
       /\ groups[g].opportunityId # NoOpp
       /\ <<u, groups[g].opportunityId>> \in mentorRecs

C14_MutationPermission ==
    [][\A u \in Users, g \in DOMAIN groups :
          (nextGroupId' = nextGroupId /\ userRole[u] # NoDoc) =>
              LET passed == resp'.status # 403
              IN /\ \A d \in Descriptions \cup {NoText} :
                       UpdateGroup(u, g, NoText, d) => (passed = ManagePermitted(u, g))
                 /\ \A ids \in PermMemberIdLists \ {<<>>} :
                       AddMembers(u, g, TRUE, ids) => (passed = ManagePermitted(u, g))
                 /\ \A x \in Users :
                       RemoveMember(u, g, x) => (passed = ManagePermitted(u, g))
                 /\ DeleteGroup(u, g) => (passed = ManagePermitted(u, g))]_vars

C14_Witness ==
    /\ resp.status = 403
    /\ \E g \in DOMAIN groups, u, v \in Users :
          /\ u # groups[g].createdBy
          /\ userRole[u] = "mentor"
          /\ Contains(groups[g].admins, u)
          /\ userRole[v] = "volunteer"
          /\ ~ManagePermitted(v, g)

(***************************************************************************)
(* C15  Creation side effect: the members of a created group are the       *)
(* invited ids and the creator, each once; its admins are the creator and  *)
(* exactly the members holding a mentor record for the opportunity of the  *)
(* request.                                                                *)
(***************************************************************************)
C15_CreationSideEffect ==
    [][\A u \in Users, ids \in PermMemberIdLists, isOrg \in BOOLEAN,
          opp \in Opps \cup {NoOpp} :
          (/\ nextGroupId' = nextGroupId + 1
           /\ CreateGroup(u, "g", NoText, TRUE, ids, isOrg, opp))
              => LET grp == groups'[nextGroupId]
                 IN /\ Range(grp.members) = Range(ids) \cup {u}
                    /\ Len(grp.members) = Cardinality(Range(grp.members))
                    /\ Range(grp.admins) =
                          {u} \cup {v \in Range(grp.members) :
                                      opp # NoOpp /\ <<v, opp>> \in mentorRecs}]_vars

C15_Witness ==
    \E g \in DOMAIN groups :
        /\ Range(groups[g].members) = Users
        /\ groups[g].opportunityId = "o1"
        /\ Range(groups[g].admins) = {"u1", "u3"}
        /\ groups[g].createdBy = "u1"
        /\ IsMentorFor("u2", "o2")

(***************************************************************************)
(* C16  Thread initiation: a send from s to r with no message between them *)
(* in either direction is refused with 403, and stores nothing, unless s   *)
(* is an organization, an admin or a mentor; with a message between them   *)
(* the send succeeds whatever the role of s.                               *)
(***************************************************************************)
PriorMessage(s, r) ==
    \E m \in MsgSet :
        \/ m.sender = s /\ m.receiver = r
        \/ m.sender = r /\ m.receiver = s

C16_Initiation ==
    [][\A s, r \in Users, c \in Contents :
          (groups' = groups /\ SendMessage(s, r, c))
              => IF PriorMessage(s, r)
                    \/ userRole[s] \in {"organization", "admin", "mentor"}
                 THEN /\ resp'.status = 200
                      /\ messages' = Append(messages, messages'[Len(messages')])
                      /\ messages'[Len(messages')].sender = s
                      /\ messages'[Len(messages')].receiver = r
                      /\ messages'[Len(messages')].content = c
                 ELSE /\ resp'.status = 403
                      /\ messages' = messages]_vars

C16_Witness ==
    \E i, j \in DOMAIN messages :
        /\ i < j
        /\ messages[j].sender = "u2"
        /\ messages[j].receiver = messages[i].sender
        /\ messages[i].receiver = "u2"
        /\ userRole[messages[i].sender] = "mentor"
        /\ resp.status = 200
        /\ resp.id = messages[j].id

(***************************************************************************)
(* C17  Membership gate: a group fetch or a group send by a user who is    *)
(* not among the group's members at that moment is refused and leaves the  *)
(* Message collection as it was; by a member it succeeds.                  *)
(***************************************************************************)
C17_MembershipGate ==
    [][\A u \in Users, g \in DOMAIN groups :
          /\ (nextMsgId' = nextMsgId /\ GetGroupMessages(u, g, 0, NoId))
                => IF u \in Range(groups[g].members)
                   THEN resp'.status = 200
                   ELSE resp'.status = 403 /\ messages' = messages
          /\ \A c \in Contents :
                (groups' = groups /\ SendGroupMessage(u, g, c))
                    => IF u \in Range(groups[g].members)
                       THEN /\ resp'.status = 200
                            /\ Len(messages') = Len(messages) + 1
                            /\ messages'[Len(messages')].group = g
                            /\ messages'[Len(messages')].sender = u
                       ELSE /\ resp'.status = 404
                            /\ messages' = messages]_vars

C17_Witness ==
    /\ resp.status = 403
    /\ \E g \in DOMAIN groups, i, j \in DOMAIN messages :
          /\ messages[i].group = g
          /\ messages[i].sender = "u2"
          /\ "u2" \notin Range(groups[g].members)
          /\ messages[j].group = g
          /\ messages[j].sender = "u3"
          /\ "u3" \in Range(groups[g].members)
          /\ "u2" \notin Readers(messages[j])

(***************************************************************************)
(* C18  Delete cascade: a successful delete-group removes the group and    *)
(* every message of its thread, and leaves every other group, the messages *)
(* of other groups and the direct messages as they were.                   *)
(***************************************************************************)
C18_DeleteCascade ==
    [][\A u \in Users, g \in DOMAIN groups :
          (resp'.status = 200 /\ nextMsgId' = nextMsgId /\ DeleteGroup(u, g))
              => /\ g \notin DOMAIN groups'
                 /\ \A h \in DOMAIN groups \ {g} :
                       h \in DOMAIN groups' /\ groups'[h] = groups[h]
                 /\ \A i \in DOMAIN messages' : messages'[i].group # g
                 /\ Range(messages') = {m \in Range(messages) : m.group # g}
                 /\ Len(messages') =
                       Cardinality({i \in DOMAIN messages : messages[i].group # g})]_vars

C18_Witness ==
    /\ nextGroupId = MaxGateGroups + 1
    /\ Cardinality(DOMAIN groups) = 1
    /\ nextMsgId = 3
    /\ Len(messages) = 1
    /\ messages[1].group \in DOMAIN groups
    /\ resp.status = 200
    /\ resp.id = NoId

(***************************************************************************)
(* C19  Conversation derivation: the list answered to u has one entry for  *)
(* each user x with a direct message between u and x and no other entry;   *)
(* the entry's lastMessage is a message of that thread that no other is    *)
(* later than, and its unreadCount the number of unread messages from x to *)
(* u.  Group messages add no entry and no count.                           *)
(***************************************************************************)
Between(u, x) ==
    {m \in MsgSet : /\ m.group = NoId
                    /\ \/ m.sender = u /\ m.receiver = x
                       \/ m.sender = x /\ m.receiver = u}

C19_ConversationDerivation ==
    [][\A u \in Users :
          (messages' = messages /\ resp'.status = 200 /\ GetConversations(u))
              => LET list == resp'.body
                 IN /\ DOMAIN list = {x \in Users : Between(u, x) # {}}
                    /\ \A x \in DOMAIN list :
                          /\ list[x].lastMessage \in {m.id : m \in Between(u, x)}
                          /\ \A m \in Between(u, x) :
                                MsgById(list[x].lastMessage).createdAt >= m.createdAt
                          /\ list[x].unreadCount =
                                Cardinality({m \in Between(u, x) :
                                    m.sender = x /\ m.receiver = u /\ ~m.isRead})]_vars

C19_Witness ==
    /\ resp.status = 200
    /\ Len(messages) = 3
    /\ DOMAIN resp.body = {"u2", "u3"}
    /\ Between("u1", "u2") = {messages[1], messages[2]}
    /\ messages[2].createdAt > messages[1].createdAt
    /\ resp.body["u2"].lastMessage = messages[2].id
    /\ resp.body["u2"].unreadCount = 1
    /\ resp.body["u3"].unreadCount = 0

(***************************************************************************)
(* C20  End to end: with no message between the organization u1 and the    *)
(* volunteer u2, u1's "Hello" to u2 is accepted, then u2's "Hi" to u1 is   *)
(* accepted; u1's conversation list then shows u2 with lastMessage "Hi"    *)
(* and unreadCount 1, and after u1 marks the conversation read the         *)
(* unreadCount is 0.                                                       *)
(***************************************************************************)
Said(i, s, r, c) ==
    /\ i \in DOMAIN messages
    /\ messages[i].sender = s
    /\ messages[i].receiver = r
    /\ messages[i].content = c

HelloThenHi ==
    /\ Len(messages) = 2
    /\ Said(1, "u1", "u2", "Hello")
    /\ Said(2, "u2", "u1", "Hi")

C20_EndToEnd ==
    [][/\ (messages = <<>> /\ SendMessage("u1", "u2", "Hello"))
             => resp'.status = 200
       /\ (Len(messages) = 1 /\ Said(1, "u1", "u2", "Hello")
              /\ SendMessage("u2", "u1", "Hi"))
             => resp'.status = 200 /\ HelloThenHi'
       /\ (HelloThenHi /\ ~messages[2].isRead /\ messages' = messages
              /\ GetConversations("u1"))
             => /\ DOMAIN resp'.body = {"u2"}
                /\ MsgById(resp'.body["u2"].lastMessage).content = "Hi"
                /\ resp'.body["u2"].unreadCount = 1
       /\ (HelloThenHi /\ MarkConversationRead("u1", "u2"))
             => \A list \in ConversationLists("u1")' : list["u2"].unreadCount = 0]_vars


(***************************************************************************)
(* C21  Message target exclusivity: every stored message has exactly one   *)
(* of receiver and group; a direct send stores a receiver and no group, a  *)
(* group send a group and no receiver; and a send that names neither a     *)
(* receiver nor a group is refused and stores nothing.                     *)
(***************************************************************************)
ExactlyOneTarget(m) == (m.receiver # NoUser) # (m.group # NoId)

C21_TargetExclusivity ==
    [][/\ \A i \in DOMAIN messages' : ExactlyOneTarget(messages'[i])
       /\ \A s \in Users, c \in Contents \cup {NoContent}, f \in Files \cup {NoFile} :
             /\ \A r \in Users :
                   (nextMsgId' = nextMsgId + 1 /\ PostMessage(s, r, c, f))
                       => /\ messages'[Len(messages')].receiver = r
                          /\ messages'[Len(messages')].group = NoId
             /\ \A g \in DOMAIN groups :
                   (nextMsgId' = nextMsgId + 1 /\ PostGroupMessage(s, g, c, f))
                       => /\ messages'[Len(messages')].group = g
                          /\ messages'[Len(messages')].receiver = NoUser
             /\ PostMessage(s, NoUser, c, f)
                   => resp'.status # 200 /\ messages' = messages]_vars

(***************************************************************************)
(* C22  State unchanged on rejection: a create-group, update-group,        *)
(* add-members, remove-member or delete-group that is refused leaves the   *)
(* groups and the messages exactly as they were; a request for a missing   *)
(* group or by a missing actor, by an actor without permission, or for the *)
(* removal of the single admin is refused.                                 *)
(***************************************************************************)
Refused == resp'.status \in {400, 403, 404}

Kept == groups' = groups /\ messages' = messages

\* no group g, no actor u, or no permission of u over g
NotAllowed(u, g) ==
    \/ g \notin DOMAIN groups
    \/ userRole[u] = NoDoc
    \/ ~ManagePermitted(u, g)

\* the step is a request of u over group g to one of the four routes that
\* change an existing group
Mutation(u, g) ==
    \/ \E d \in Descriptions \cup {NoText} : UpdateGroup(u, g, NoText, d)
    \/ \E hasIds \in BOOLEAN, ids \in {<<>>, <<"u3">>} : AddMembers(u, g, hasIds, ids)
    \/ \E x \in Users : RemoveMember(u, g, x)
    \/ DeleteGroup(u, g)

C22_RejectionFrame ==
    [][(nextMsgId' = nextMsgId) =>
          IF Refused
          THEN Kept
          ELSE \A u \in Users, g \in 1..MaxGroups :
                  /\ NotAllowed(u, g) => ~Mutation(u, g)
                  /\ \A x \in Users :
                        (g \in DOMAIN groups /\ groups[g].admins = <<x>>)
                            => ~RemoveMember(u, g, x)]_vars

C22_Witness ==
    /\ resp.status = 400
    /\ userRole["u3"] = NoDoc
    /\ \E g \in DOMAIN groups :
          /\ Len(groups[g].admins) = 1
          /\ Len(groups[g].members) = 2
          /\ \E m \in MsgSet : m.group = g
          /\ \E m \in MsgSet : m.group = NoId

(***************************************************************************)
(* C23  Validation first: a direct send without receiverId or without      *)
(* content, a group send without content, a create-group without a name or *)
(* without a memberIds array and an add-members without memberIds or with  *)
(* an empty one are each answered 400, whatever the store holds, and leave *)
(* every collection as it was.                                             *)
(***************************************************************************)
StoreUnchanged ==
    /\ messages' = messages
    /\ groups' = groups
    /\ nextMsgId' = nextMsgId
    /\ nextGroupId' = nextGroupId

C23_ValidationFirst ==
    [][/\ \A s \in Users, r \in Users \cup {NoUser}, c \in Contents \cup {NoContent},
             f \in Files \cup {NoFile} :
             ((r = NoUser \/ c = NoContent) /\ PostMessage(s, r, c, f))
                 => resp'.status = 400 /\ StoreUnchanged
       /\ \A m \in Users, g \in 1..MaxGroups, f \in Files \cup {NoFile} :
             PostGroupMessage(m, g, NoContent, f)
                 => resp'.status = 400 /\ StoreUnchanged
       /\ \A u \in Users, n \in Names \cup {NoText}, hasIds \in BOOLEAN,
             ids \in {<<>>, <<"u2">>} :
             ((n = NoText \/ ~hasIds)
                 /\ CreateGroup(u, n, NoText, hasIds, ids, FALSE, NoOpp))
                 => resp'.status = 400 /\ StoreUnchanged
       /\ \A u \in Users, g \in 1..MaxGroups, hasIds \in BOOLEAN,
             ids \in {<<>>, <<"u3">>} :
             ((~hasIds \/ ids = <<>>) /\ AddMembers(u, g, hasIds, ids))
                 => resp'.status = 400 /\ StoreUnchanged]_vars

(***************************************************************************)
(* C24  Member and admin collections are sets: in every state no user      *)
(* appears more than once among the members of a group, nor more than once *)
(* among its admins.                                                       *)
(***************************************************************************)
Distinct(ids) == \A i, j \in DOMAIN ids : ids[i] = ids[j] => i = j

C24_NoUserTwice ==
    \A g \in DOMAIN groups :
        Distinct(groups[g].members) /\ Distinct(groups[g].admins)

(***************************************************************************)
(* C25  Client-side ordering: the conversation list on display is a        *)
(* permutation of the list the server returned, ordered by lastMessage     *)
(* createdAt descending; so is the group list, with the groups that have   *)
(* no last message after all those that have one.                          *)
(***************************************************************************)
IsPermutation(shown, sent) ==
    /\ Len(shown) = Len(sent)
    /\ \A r \in Range(sent) :
          Cardinality({i \in DOMAIN shown : shown[i] = r})
              = Cardinality({i \in DOMAIN sent : sent[i] = r})

C25_ClientOrdering ==
    /\ IsPermutation(screen.conversations, screen.conversationsData)
    /\ \A i, j \in DOMAIN screen.conversations :
          i < j => screen.conversations[i].createdAt >= screen.conversations[j].createdAt
    /\ IsPermutation(screen.groups, screen.groupsData)
    /\ \A i, j \in DOMAIN screen.groups :
          i < j => /\ screen.groups[i].createdAt >= screen.groups[j].createdAt
                   /\ screen.groups[i].createdAt = NoTime
                         => screen.groups[j].createdAt = NoTime

C25_Witness ==
    /\ Len(screen.conversations) = 2
    /\ screen.conversations # screen.conversationsData
    /\ screen.conversations[1].createdAt > screen.conversations[2].createdAt
    /\ Len(screen.groups) = 2
    /\ screen.groups # screen.groupsData
    /\ screen.groups[1].createdAt = 0
    /\ screen.groups[2].createdAt = NoTime

(***************************************************************************)
(* C26  Read flag and read log of direct messages agree: every direct      *)
(* message with isRead set has a readBy entry for its receiver, and every  *)
(* direct message with isRead unset has an empty readBy.                   *)
(***************************************************************************)
C26_FlagMatchesLog ==
    \A m \in MsgSet :
        m.group = NoId =>
            IF m.isRead THEN m.receiver \in Readers(m) ELSE m.readBy = <<>>

(***************************************************************************)
(* C27  At-most-once read entries: with fetches run step by step beside    *)
(* one another and beside sends, no readBy log ever holds two entries for  *)
(* one user, and the author of a group message has exactly one entry in    *)
(* its log from the moment it is stored.                                   *)
(***************************************************************************)
EntriesOf(m, u) == Cardinality({k \in DOMAIN m.readBy : m.readBy[k].user = u})

C27_ReadOnce ==
    \A m \in MsgSet :
        /\ \A u \in Users : EntriesOf(m, u) <= 1
        /\ m.group # NoId => EntriesOf(m, m.sender) = 1

C27_Witness ==
    /\ Len(inflight) = 2
    /\ inflight[1].op = "fetchGroup"
    /\ inflight[2].op = "fetchGroup"
    /\ inflight[1].user = inflight[2].user
    /\ inflight[1].stage = "updating"
    /\ inflight[2].stage = "updating"
    /\ \E m \in MsgSet :
          /\ m.group # NoId
          /\ m.sender # inflight[1].user
          /\ EntriesOf(m, inflight[1].user) = 1
          /\ m.id \notin inflight[1].ids
          /\ m.id \in inflight[2].ids

(***************************************************************************)
(* C28  No orphaned group messages: with group sends and group deletions   *)
(* run step by step beside one another, every stored message that has a    *)
(* group names a group that exists.                                        *)
(***************************************************************************)
C28_NoOrphans ==
    \A m \in MsgSet : m.group # NoId => m.group \in DOMAIN groups

(***************************************************************************)
(* C29  Thread origin: with direct sends run step by step beside one       *)
(* another, the first stored message of every direct thread, which no      *)
(* other of the thread is earlier than, was sent by an organization, an    *)
(* admin or a mentor, and two users without such a role have no message    *)
(* between them.                                                           *)
(***************************************************************************)
Privileged(u) == userRole[u] \in {"organization", "admin", "mentor"}

C29_ThreadOrigin ==
    \A a, b \in Users :
        LET thread == DirectThread(messages, a, b)
        IN /\ thread # {} =>
                 \E m \in thread :
                    /\ \A k \in thread : m.id <= k.id /\ m.createdAt <= k.createdAt
                    /\ Privileged(m.sender)
           /\ (~Privileged(a) /\ ~Privileged(b)) => thread = {}

C29_Witness ==
    /\ Len(messages) = 2
    /\ messages[1].sender = "u1"
    /\ messages[1].receiver = "u2"
    /\ messages[2].sender = "u2"
    /\ messages[2].receiver = "u1"
    /\ messages[2].createdAt = messages[1].createdAt
    /\ Len(inflight) = 1
    /\ inflight[1].user = "u2"
    /\ inflight[1].peer = "u1"
    /\ ~Privileged("u2")

(***************************************************************************)
(* C30  Bounded database reconnection: reconnectAttempts never exceeds     *)
(* MAX_RECONNECT_ATTEMPTS, whatever connects fail and whatever 'error'     *)
(* and 'disconnected' events arrive, and at most one reconnect timer is    *)
(* pending at any time.                                                    *)
(***************************************************************************)
C30_BoundedReconnect ==
    /\ db.reconnectAttempts <= MAX_RECONNECT_ATTEMPTS
    /\ db.timers <= 1

====
